---- MODULE Spec2Model ----
(***************************************************************************)
(* Model of the finance bot: the command parser (MessageParser), the date  *)
(* resolver (DateHelper), the ledger engine (SheetUpdater.updateValue,     *)
(* getDayData) and the dispatcher (MessageHandler.handleMessage) driven by *)
(* the socket transport (server.ts).                                       *)
(*                                                                         *)
(* Text is a sequence of one-character strings.  The non-ASCII letters are *)
(* written with two-character names, each standing for ONE character:      *)
(*   "a~" = a-tilde, "A~" = capital a-tilde, "i'" = i-acute,               *)
(*   "a'" = a-acute, "e^" = e-circumflex, "c," = c-cedilla.                *)
(* Numbers are held in thousandths (1.234 is 1234, 87.10 is 87100).        *)
(***************************************************************************)
EXTENDS Integers, Sequences, FiniteSets, TLC

VARIABLES
  msg,       \* parser harness: the message handed to MessageParser.parse
  anchor,    \* parser harness: the Brasilia "now" (calendar date) of that call
  parsed,    \* parser harness: the value parse returned ("pending" before the call)
  today,     \* dispatcher: the Brasilia calendar date of the wall clock
  cells,     \* the sheet: A1 coordinate -> cell text (absent = blank cell)
  reqs,      \* dispatcher: the handleMessage invocations in flight, by request id
  nextId,    \* dispatcher: number of messages received so far
  ledger,    \* history: per cell, the ids of the requests whose writeCell succeeded
  input,     \* function harness: the arguments of the call under check
  output,    \* function harness: what the call returned (done = FALSE before it)
  ai         \* AIService: its clock, its conversations and its generateResponse calls

vars == <<msg, anchor, parsed, today, cells, reqs, nextId, ledger, input, output, ai>>

(***************************************************************************)
(* Characters and text helpers (JavaScript String methods).                *)
(***************************************************************************)
DigitChars == <<"0", "1", "2", "3", "4", "5", "6", "7", "8", "9">>

UpperChars == <<"A", "B", "C", "D", "E", "F", "G", "H", "I", "J", "K", "L", "M",
                "N", "O", "P", "Q", "R", "S", "T", "U", "V", "W", "X", "Y", "Z",
                "A~">>

LowerChars == <<"a", "b", "c", "d", "e", "f", "g", "h", "i", "j", "k", "l", "m",
                "n", "o", "p", "q", "r", "s", "t", "u", "v", "w", "x", "y", "z",
                "a~">>

IsDigit(c) == \E i \in 1..10 : DigitChars[i] = c

DigitVal(c) == (CHOOSE i \in 1..10 : DigitChars[i] = c) - 1

\* \s of a JavaScript regular expression, and the characters trim() removes
IsSpace(c) == c \in {" ", "\t", "\n"}

\* \w of a JavaScript regular expression without the u flag: ASCII only
IsWordChar(c) ==
  \/ IsDigit(c)
  \/ c = "_"
  \/ \E i \in 1..26 : UpperChars[i] = c \/ LowerChars[i] = c

toLowerCaseChar(c) ==
  IF \E i \in 1..Len(UpperChars) : UpperChars[i] = c
  THEN LowerChars[CHOOSE i \in 1..Len(UpperChars) : UpperChars[i] = c]
  ELSE c

toLowerCase(s) == [i \in 1..Len(s) |-> toLowerCaseChar(s[i])]

\* s.substring(i - 1): the text from position i (1-based) to the end
From(s, i) == SubSeq(s, i, Len(s))

trim(s) ==
  IF \A i \in 1..Len(s) : IsSpace(s[i]) THEN <<>>
  ELSE LET a == CHOOSE i \in 1..Len(s) :
                  ~IsSpace(s[i]) /\ \A k \in 1..(i - 1) : IsSpace(s[k])
           b == CHOOSE i \in 1..Len(s) :
                  ~IsSpace(s[i]) /\ \A k \in (i + 1)..Len(s) : IsSpace(s[k])
       IN SubSeq(s, a, b)

\* p occurs in s at position i
StartsWithAt(s, p, i) ==
  /\ i >= 1
  /\ i + Len(p) - 1 <= Len(s)
  /\ \A k \in 1..Len(p) : s[i + k - 1] = p[k]

startsWith(s, p) == StartsWithAt(s, p, 1)

includes(s, p) == \E i \in 1..(Len(s) + 1) : StartsWithAt(s, p, i)

\* length of the run of digits (\d*) of s that starts at position i
DigitRun(s, i) ==
  IF i > Len(s) THEN 0 ELSE
  CHOOSE n \in 0..Len(s) :
    /\ i + n - 1 <= Len(s)
    /\ \A k \in 0..(n - 1) : IsDigit(s[i + k])
    /\ (i + n > Len(s) \/ ~IsDigit(s[i + n]))

\* length of the run of whitespace (\s*) of s that starts at position i
SpaceRun(s, i) ==
  IF i > Len(s) THEN 0 ELSE
  CHOOSE n \in 0..Len(s) :
    /\ i + n - 1 <= Len(s)
    /\ \A k \in 0..(n - 1) : IsSpace(s[i + k])
    /\ (i + n > Len(s) \/ ~IsSpace(s[i + n]))

\* the character of s at position i, "" past the end
At(s, i) == IF i >= 1 /\ i <= Len(s) THEN s[i] ELSE ""

Min(a, b) == IF a < b THEN a ELSE b

\* parseInt of a run of digits
RECURSIVE parseInt(_)
parseInt(s) ==
  IF s = <<>> THEN 0
  ELSE 10 * parseInt(SubSeq(s, 1, Len(s) - 1)) + DigitVal(s[Len(s)])

\* Number.prototype.toString of a natural number
RECURSIVE NatToText(_)
NatToText(n) ==
  IF n < 10 THEN <<DigitChars[n + 1]>>
  ELSE NatToText(n \div 10) \o <<DigitChars[(n % 10) + 1]>>

(***************************************************************************)
(* Numbers.  A JavaScript number is held in thousandths; the texts of the  *)
(* model carry no sign and at most three fraction digits, so every value   *)
(* is a natural number of thousandths.  NaN is the one value below zero.   *)
(***************************************************************************)
NaN == -1

isNaN(v) == v = NaN

\* the fraction digits f of "int.f", in thousandths
FracThousandths(f) ==
  LET n == Min(3, Len(f))
  IN IF n = 0 THEN 0
     ELSE IF n = 1 THEN 100 * parseInt(SubSeq(f, 1, 1))
     ELSE IF n = 2 THEN 10 * parseInt(SubSeq(f, 1, 2))
     ELSE parseInt(SubSeq(f, 1, 3))

\* parseFloat: leading whitespace skipped, then the longest prefix that is a
\* decimal literal; NaN when there is none
parseFloat(text) ==
  LET s  == From(text, SpaceRun(text, 1) + 1)
      n1 == DigitRun(s, 1)
      n2 == IF At(s, n1 + 1) = "." THEN DigitRun(s, n1 + 2) ELSE 0
  IN IF n1 = 0 /\ n2 = 0 THEN NaN
     ELSE 1000 * parseInt(SubSeq(s, 1, n1))
          + FracThousandths(SubSeq(s, n1 + 2, n1 + 1 + n2))

\* value.toFixed(2): rounded to hundredths, two fraction digits
toFixed2(v) ==
  LET cents == (v + 5) \div 10
      frac  == cents % 100
  IN NatToText(cents \div 100) \o <<".">>
     \o <<DigitChars[(frac \div 10) + 1], DigitChars[(frac % 10) + 1]>>

\* s.replace(a, b) with a one-character string a: the FIRST occurrence only
replaceFirstChar(s, a, b) ==
  IF \E i \in 1..Len(s) : s[i] = a
  THEN LET i == CHOOSE i \in 1..Len(s) : s[i] = a /\ \A k \in 1..(i - 1) : s[k] # a
       IN SubSeq(s, 1, i - 1) \o b \o From(s, i + 1)
  ELSE s

(***************************************************************************)
(* Calendar dates: the year, month (1..12) and day a JavaScript Date       *)
(* reports through getFullYear, getMonth() + 1 and getDate.                *)
(***************************************************************************)
IsLeapYear(y) == (y % 4 = 0 /\ y % 100 # 0) \/ (y % 400 = 0)

DaysInMonth(y, m) ==
  IF m = 2 THEN (IF IsLeapYear(y) THEN 29 ELSE 28)
  ELSE IF m \in {4, 6, 9, 11} THEN 30
  ELSE 31

\* new Date(year, monthIndex, day): out-of-range months and days carry over
RECURSIVE NewDate(_, _, _)
NewDate(y, mi, d) ==
  IF mi > 11 THEN NewDate(y + 1, mi - 12, d)
  ELSE IF mi < 0 THEN NewDate(y - 1, mi + 12, d)
  ELSE IF d < 1
       THEN LET py == IF mi = 0 THEN y - 1 ELSE y
                pm == IF mi = 0 THEN 11 ELSE mi - 1
            IN NewDate(py, pm, d + DaysInMonth(py, pm + 1))
  ELSE IF d > DaysInMonth(y, mi + 1)
       THEN NewDate(y, mi + 1, d - DaysInMonth(y, mi + 1))
  ELSE [y |-> y, m |-> mi + 1, d |-> d]

\* date.setDate(date.getDate() + k)
setDate(date, k) == NewDate(date.y, date.m - 1, date.d + k)

\* the words of the date vocabulary
W_hoje   == <<"h", "o", "j", "e">>
W_hj     == <<"h", "j">>
W_ontem  == <<"o", "n", "t", "e", "m">>
W_amanha == <<"a", "m", "a", "n", "h", "a">>
W_amanhaTil == <<"a", "m", "a", "n", "h", "a~">>

\* /^(\d{1,2})\/(\d{1,2})(?:\/(\d{2,4}))?$/: the lengths <<a, b, c>> of the
\* three groups when the whole text matches (c = 0: no year), <<0, 0, 0>> if not
DateShape(s) ==
  LET shapes == {sh \in (1..2) \X (1..2) \X {0, 2, 3, 4} :
                   LET a == sh[1]
                       b == sh[2]
                       c == sh[3]
                   IN /\ Len(s) = a + 1 + b + (IF c = 0 THEN 0 ELSE 1 + c)
                      /\ \A k \in 1..a : IsDigit(s[k])
                      /\ s[a + 1] = "/"
                      /\ \A k \in 1..b : IsDigit(s[a + 1 + k])
                      /\ c > 0 => /\ s[a + b + 2] = "/"
                                  /\ \A k \in 1..c : IsDigit(s[a + b + 2 + k])}
  IN IF shapes = {} THEN <<0, 0, 0>> ELSE CHOOSE sh \in shapes : TRUE

\* DateHelper.parseDate, with getBrasiliaTime() = now
parseDate(dateText, now) ==
  LET normalized == trim(toLowerCase(dateText))
      sh == DateShape(normalized)
  IN IF normalized = W_hoje THEN now
     ELSE IF normalized = W_ontem THEN setDate(now, -1)
     ELSE IF normalized = W_amanha \/ normalized = W_amanhaTil THEN setDate(now, 1)
     ELSE IF sh # <<0, 0, 0>>
          THEN LET day   == parseInt(SubSeq(normalized, 1, sh[1]))
                   month == parseInt(SubSeq(normalized, sh[1] + 2, sh[1] + 1 + sh[2]))
                   y0    == IF sh[3] > 0
                            THEN parseInt(From(normalized, sh[1] + sh[2] + 3))
                            ELSE now.y
                   year  == IF y0 < 100 THEN y0 + 2000 ELSE y0
               IN NewDate(year, month - 1, day)
     ELSE now

(***************************************************************************)
(* The words the parser's regular expressions name.                        *)
(***************************************************************************)
W_sub == <<"s", "u", "b">>

W_ajuda == <<"a", "j", "u", "d", "a">>

W_help == <<"h", "e", "l", "p">>

W_question == <<"?">>

W_performance == <<"p", "e", "r", "f", "o", "r", "m", "a", "n", "c", "e">>

W_desempenho == <<"d", "e", "s", "e", "m", "p", "e", "n", "h", "o">>

W_comparar == <<"c", "o", "m", "p", "a", "r", "a", "r">>

W_comparacao == <<"c", "o", "m", "p", "a", "r", "a", "c", "a", "o">>

W_comparacaoTil == <<"c", "o", "m", "p", "a", "r", "a", "c,", "a~", "o">>

W_previsao == <<"p", "r", "e", "v", "i", "s", "a", "o">>

W_previsaoTil == <<"p", "r", "e", "v", "i", "s", "a~", "o">>

W_projecao == <<"p", "r", "o", "j", "e", "c", "a", "o">>

W_projecaoTil == <<"p", "r", "o", "j", "e", "c,", "a~", "o">>

W_forecast == <<"f", "o", "r", "e", "c", "a", "s", "t">>

W_saldo == <<"s", "a", "l", "d", "o">>

W_resumo == <<"r", "e", "s", "u", "m", "o">>

W_extrato == <<"e", "x", "t", "r", "a", "t", "o">>

W_semana == <<"s", "e", "m", "a", "n", "a">>

W_semanal == <<"s", "e", "m", "a", "n", "a", "l">>

W_mes == <<"m", "e", "s">>

W_mesCirc == <<"m", "e^", "s">>

W_mensal == <<"m", "e", "n", "s", "a", "l">>

W_entrada == <<"e", "n", "t", "r", "a", "d", "a">>

W_saida == <<"s", "a", "i", "d", "a">>

W_saidaAcute == <<"s", "a", "i'", "d", "a">>

W_diario == <<"d", "i", "a", "r", "i", "o">>

W_diarioAcute == <<"d", "i", "a'", "r", "i", "o">>

(***************************************************************************)
(* MessageParser.                                                          *)
(***************************************************************************)
SaldoWords == {W_saldo, W_resumo, W_extrato}

RelativeWords == {W_ontem, W_amanha, W_amanhaTil}

\* text.replace(/^sub\s+/, '') on a text whose letters the regex can match:
\* detectType applies it to the lowercased text, parse with the i flag
StripSub(text) ==
  IF startsWith(toLowerCase(text), W_sub) /\ SpaceRun(text, 4) >= 1
  THEN From(text, 4 + SpaceRun(text, 4))
  ELSE text

\* /\d{1,2}\/\d{1,2}/ matches at position i of s (a prefix match)
DayMonthAt(s, i) ==
  \E a \in 1..2 :
    /\ DigitRun(s, i) >= a
    /\ At(s, i + a) = "/"
    /\ DigitRun(s, i + a + 1) >= 1

\* /^\d{1,2}\/\d{1,2}$/ matches the whole of s
IsDayMonth(s) ==
  \E a \in 1..2, b \in 1..2 :
    /\ Len(s) = a + 1 + b
    /\ \A k \in 1..a : IsDigit(s[k])
    /\ s[a + 1] = "/"
    /\ \A k \in 1..b : IsDigit(s[a + 1 + k])

\* /^(saldo|resumo|extrato)\s+\d{1,2}\/\d{1,2}/
MatchSaldoDate(s) ==
  \E kw \in SaldoWords :
    /\ startsWith(s, kw)
    /\ SpaceRun(s, Len(kw) + 1) >= 1
    /\ DayMonthAt(s, Len(kw) + 1 + SpaceRun(s, Len(kw) + 1))

\* /^(saldo|resumo|extrato)\s+(ontem|amanha|amanhã)$/
MatchSaldoRelative(s) ==
  \E kw \in SaldoWords :
    /\ startsWith(s, kw)
    /\ SpaceRun(s, Len(kw) + 1) >= 1
    /\ From(s, Len(kw) + 1 + SpaceRun(s, Len(kw) + 1)) \in RelativeWords

\* /^(saldo|resumo|extrato)\s*(hoje|hj)?$/
MatchSaldoToday(s) ==
  \E kw \in SaldoWords :
    /\ startsWith(s, kw)
    /\ From(s, Len(kw) + 1 + SpaceRun(s, Len(kw) + 1)) \in {<<>>, W_hoje, W_hj}

\* /^(saldo|resumo|extrato)?\s*(w1|w2|...)$/ for the words ws
MatchOptionalSaldoThen(s, ws) ==
  \E kw \in SaldoWords \cup {<<>>} :
    /\ startsWith(s, kw)
    /\ From(s, Len(kw) + 1 + SpaceRun(s, Len(kw) + 1)) \in ws

\* /^\d+([,.]\d{1,2})?\s*(hoje|amanha|amanhã|\d{1,2}\/\d{1,2})?$/
MatchBareNumber(s) ==
  \E a \in 1..DigitRun(s, 1) :
    \E f \in 0..2 :
      /\ f > 0 => (At(s, a + 1) \in {",", "."} /\ DigitRun(s, a + 2) >= f)
      /\ LET j == IF f = 0 THEN a + 1 ELSE a + 2 + f
         IN \E sp \in 0..SpaceRun(s, j) :
              LET rest == From(s, j + sp)
              IN \/ rest \in {<<>>, W_hoje, W_amanha, W_amanhaTil}
                 \/ IsDayMonth(rest)

\* the type of "no command": detectType's and parse's null
NullType == "null"

detectType(text) ==
  LET lower     == toLowerCase(text)
      cleanText == StripSub(lower)
  IN IF cleanText \in {W_ajuda, W_help, W_question} THEN "ajuda"
     ELSE IF cleanText \in {W_performance, W_desempenho} THEN "performance"
     ELSE IF cleanText \in {W_comparar, W_comparacao, W_comparacaoTil} THEN "comparar"
     ELSE IF cleanText \in {W_previsao, W_previsaoTil, W_projecao,
                            W_projecaoTil, W_forecast} THEN "previsao"
     ELSE IF MatchSaldoDate(cleanText) THEN "saldo"
     ELSE IF MatchSaldoRelative(cleanText) THEN "saldo"
     ELSE IF MatchSaldoToday(cleanText) THEN "hoje"
     ELSE IF cleanText \in {W_hoje, W_hj} THEN "hoje"
     ELSE IF cleanText = W_ontem THEN "saldo"
     ELSE IF cleanText \in {W_amanha, W_amanhaTil} THEN "saldo"
     ELSE IF MatchOptionalSaldoThen(cleanText, {W_semana, W_semanal}) THEN "semana"
     ELSE IF MatchOptionalSaldoThen(cleanText, {W_mes, W_mesCirc, W_mensal}) THEN "mes"
     ELSE IF includes(cleanText, W_entrada) THEN "entrada"
     ELSE IF includes(cleanText, W_saida) \/ includes(cleanText, W_saidaAcute)
          THEN "saida"
     ELSE IF MatchBareNumber(cleanText) THEN "diario"
     ELSE NullType

\* text.toLowerCase().trim().startsWith('sub ')
shouldReplace(text) == startsWith(trim(toLowerCase(text)), W_sub \o <<" ">>)

\* \b of a regular expression, between positions i - 1 and i of s
WordBoundary(s, i) == IsWordChar(At(s, i - 1)) # IsWordChar(At(s, i))

\* length of the match of /\d{1,2}\/\d{1,2}(?:\/\d{2,4})?/ at position i of s
\* (greedy: two digits before one, the year when it is there), 0 for no match
DateMatchLen(s, i) ==
  LET a  == IF DigitRun(s, i) >= 2 /\ At(s, i + 2) = "/" THEN 2
            ELSE IF DigitRun(s, i) >= 1 /\ At(s, i + 1) = "/" THEN 1
            ELSE 0
      b  == Min(2, DigitRun(s, i + a + 1))
      p  == i + a + 1 + b
      c  == IF At(s, p) = "/" /\ DigitRun(s, p + 1) >= 2
            THEN 1 + Min(4, DigitRun(s, p + 1))
            ELSE 0
  IN IF a = 0 \/ b = 0 THEN 0 ELSE a + 1 + b + c

\* text.match(/(\d{1,2}\/\d{1,2}(?:\/\d{2,4})?)/): the first match, <<>> if none
FirstDateMatch(s) ==
  IF \E i \in 1..Len(s) : DateMatchLen(s, i) > 0
  THEN LET i == CHOOSE i \in 1..Len(s) :
                  /\ DateMatchLen(s, i) > 0
                  /\ \A k \in 1..(i - 1) : DateMatchLen(s, k) = 0
       IN SubSeq(s, i, i + DateMatchLen(s, i) - 1)
  ELSE <<>>

\* an absent optional date (targetDate: undefined)
NoDate == [y |-> 0, m |-> 0, d |-> 0]

\* text.match(/\b(ontem|amanha|amanhã)\b/): the positions and words that match
KeywordMatches(s) ==
  {im \in (1..Len(s)) \X RelativeWords :
     /\ StartsWithAt(s, im[2], im[1])
     /\ WordBoundary(s, im[1])
     /\ WordBoundary(s, im[1] + Len(im[2]))}

extractTargetDate(text, now) ==
  LET km == KeywordMatches(text)
      dm == FirstDateMatch(text)
  IN IF km # {}
     THEN LET first == CHOOSE im \in km : \A o \in km : im[1] <= o[1]
          IN parseDate(first[2], now)
     ELSE IF dm # <<>> THEN parseDate(dm, now)
     ELSE NoDate

\* the words extractValue deletes: /entrada|saida|saída|diario|diário|hoje|amanha|amanhã/gi
ValueKeywords == {W_entrada, W_saida, W_saidaAcute, W_diario, W_diarioAcute,
                  W_hoje, W_amanha, W_amanhaTil}

\* s.replace(/k1|k2|.../g, ''), for words ks no two of which start alike
RECURSIVE RemoveWords(_, _)
RemoveWords(s, ks) ==
  IF s = <<>> THEN <<>>
  ELSE IF \E k \in ks : startsWith(s, k)
       THEN RemoveWords(From(s, 1 + Len(CHOOSE k \in ks : startsWith(s, k))), ks)
       ELSE <<Head(s)>> \o RemoveWords(Tail(s), ks)

\* s.replace(/\d{1,2}\/\d{1,2}(?:\/\d{2,4})?/g, '')
RECURSIVE RemoveDates(_)
RemoveDates(s) ==
  IF s = <<>> THEN <<>>
  ELSE IF DateMatchLen(s, 1) > 0 THEN RemoveDates(From(s, 1 + DateMatchLen(s, 1)))
  ELSE <<Head(s)>> \o RemoveDates(Tail(s))

\* text.match(/[\d]+[,.]?[\d]*/): the first match, <<>> if none
FirstNumberMatch(s) ==
  IF \E i \in 1..Len(s) : IsDigit(s[i])
  THEN LET i  == CHOOSE i \in 1..Len(s) :
                   IsDigit(s[i]) /\ \A k \in 1..(i - 1) : ~IsDigit(s[k])
           n1 == DigitRun(s, i)
           sp == IF At(s, i + n1) \in {",", "."} THEN 1 ELSE 0
           n2 == IF sp = 1 THEN DigitRun(s, i + n1 + 1) ELSE 0
       IN SubSeq(s, i, i + n1 + sp + n2 - 1)
  ELSE <<>>

normalizeValue(value) ==
  LET n1   == replaceFirstChar(trim(value), ",", <<".">>)
      dots == {i \in 1..Len(n1) : n1[i] = "."}
      last == CHOOSE i \in dots : \A k \in dots : k <= i
      n2   == IF Cardinality(dots) >= 2
              THEN SelectSeq(SubSeq(n1, 1, last - 1), LAMBDA c : c # ".")
                   \o <<".">> \o From(n1, last + 1)
              ELSE n1
  IN parseFloat(n2)

\* extractValue's null
NullValue == -2

\* extractValue with a slip: 0, not null, when the text holds no number
extractValue_ZeroWhenMissing(text) ==
  LET c1 == trim(RemoveWords(toLowerCase(text), ValueKeywords))
      c2 == trim(RemoveDates(c1))
      m  == FirstNumberMatch(c2)
  IN IF m # <<>> THEN normalizeValue(m) ELSE 0

extractValue(text) ==
  LET c1 == trim(RemoveWords(toLowerCase(text), ValueKeywords))
      c2 == trim(RemoveDates(c1))
      m  == FirstNumberMatch(c2)
  IN IF m # <<>> THEN normalizeValue(m) ELSE NullValue

extractDate(text, now) ==
  LET lower == toLowerCase(text)
      dm    == FirstDateMatch(text)
  IN IF includes(lower, W_hoje) THEN parseDate(W_hoje, now)
     ELSE IF includes(lower, W_ontem) THEN parseDate(W_ontem, now)
     ELSE IF includes(lower, W_amanha) \/ includes(lower, W_amanhaTil)
          THEN parseDate(W_amanha, now)
     ELSE IF dm # <<>> THEN parseDate(dm, now)
     ELSE now

\* a ParsedMessage; "has" names the optional fields the object literal sets
ParsedMessage(type, value, date, rawText, replace, targetDate, has) ==
  [type |-> type, value |-> value, date |-> date, rawText |-> rawText,
   shouldReplace |-> replace, targetDate |-> targetDate, has |-> has]

\* parse's null
Null == ParsedMessage(NullType, NullValue, NoDate, <<>>, FALSE, NoDate, {})

\* parseUpdate with a slip: the test for a missing value is left out
parseUpdate_NoNullCheck(type, cleanMessage, trimmed, replace, now) ==
  ParsedMessage(type, extractValue(cleanMessage), extractDate(cleanMessage, now),
                trimmed, replace, NoDate, {"value", "shouldReplace"})

\* the tail of parse, for update commands
parseUpdate(type, cleanMessage, trimmed, replace, now) ==
  LET value == extractValue(cleanMessage)
  IN IF value = NullValue \/ isNaN(value) THEN Null
     ELSE ParsedMessage(type, value, extractDate(cleanMessage, now), trimmed,
                        replace, NoDate, {"value", "shouldReplace"})

\* MessageParser.parse, with getBrasiliaTime() = now
parse(message, now) ==
  LET trimmed      == trim(message)
      replace      == shouldReplace(trimmed)
      cleanMessage == IF replace THEN StripSub(trimmed) ELSE trimmed
      type         == detectType(cleanMessage)
      targetDate   == extractTargetDate(cleanMessage, now)
  IN IF trimmed = <<>> THEN Null
     ELSE IF type = NullType THEN Null
     ELSE IF type = "ajuda"
          THEN ParsedMessage("ajuda", NullValue, now, trimmed, FALSE, NoDate, {})
     ELSE IF type \in {"performance", "comparar", "previsao"}
          THEN ParsedMessage(type, NullValue, now, trimmed, FALSE, NoDate, {})
     ELSE IF type = "saldo" /\ targetDate # NoDate
          THEN ParsedMessage("saldo", NullValue, now, trimmed, FALSE, targetDate,
                             {"targetDate"})
     ELSE IF type \in {"hoje", "semana", "mes"}
          THEN ParsedMessage(type, NullValue, now, trimmed, FALSE, NoDate, {})
     ELSE parseUpdate(type, cleanMessage, trimmed, replace, now)

(***************************************************************************)
(* The parser harness: parse applied to one message at one anchor date.    *)
(* A message is a marker, a keyword, an amount and a date token, each of   *)
(* which may be missing, joined by single spaces (the marker carries its   *)
(* own whitespace).  Each amount and date token is listed with the value a *)
(* reader gives it, so that the parser's answer can be compared with it.   *)
(***************************************************************************)
Markers ==
  {<<>>,
   <<" ">>,
   <<"s", "u", "b", " ">>,
   <<"S", "U", "B", " ">>,
   <<"s", "u", "b", " ", " ">>,
   <<"s", "u", "b", "\t">>}

KeywordTokens ==
  {<<>>,
   <<"d", "i", "a", "r", "i", "o">>,
   <<"e", "n", "t", "r", "a", "d", "a">>,
   <<"s", "a", "i", "d", "a">>,
   <<"s", "a", "i'", "d", "a">>,
   <<"E", "n", "t", "r", "a", "d", "a">>,
   <<"a", "j", "u", "d", "a">>,
   <<"h", "e", "l", "p">>,
   <<"?">>,
   <<"s", "a", "l", "d", "o">>,
   <<"r", "e", "s", "u", "m", "o">>,
   <<"h", "o", "j", "e">>,
   <<"s", "e", "m", "a", "n", "a">>,
   <<"m", "e", "s">>,
   <<"p", "e", "r", "f", "o", "r", "m", "a", "n", "c", "e">>,
   <<"c", "o", "m", "p", "a", "r", "a", "r">>,
   <<"p", "r", "e", "v", "i", "s", "a", "o">>,
   <<"o", "i">>}

\* text: as typed; v: the amount in thousandths (NullValue: no amount typed);
\* plain: digits with at most two decimals after one comma or dot
AmountTokens ==
  {[text |-> <<>>, v |-> NullValue, plain |-> FALSE],
   [text |-> <<"5", "1", "7">>, v |-> 517000, plain |-> TRUE],
   [text |-> <<"8", "7", ",", "1", "0">>, v |-> 87100, plain |-> TRUE],
   [text |-> <<"8", "7", ".", "1", "0">>, v |-> 87100, plain |-> TRUE],
   [text |-> <<"0", ",", "0", "0", "4">>, v |-> 4, plain |-> FALSE],
   [text |-> <<"1", ".", "2", "3", "4", ",", "5", "6">>, v |-> 1234560, plain |-> FALSE]}

\* text: as typed; kind: none, rel (today + d days) or abs (day d of month m of
\* year y, y = 0: the anchor's year)
DateTokens ==
  {[text |-> <<>>, kind |-> "none", d |-> 0, m |-> 0, y |-> 0],
   [text |-> <<"h", "o", "j", "e">>, kind |-> "rel", d |-> 0, m |-> 0, y |-> 0],
   [text |-> <<"o", "n", "t", "e", "m">>, kind |-> "rel", d |-> -1, m |-> 0, y |-> 0],
   [text |-> <<"a", "m", "a", "n", "h", "a">>, kind |-> "rel", d |-> 1, m |-> 0, y |-> 0],
   [text |-> <<"a", "m", "a", "n", "h", "a~">>, kind |-> "rel", d |-> 1, m |-> 0, y |-> 0],
   [text |-> <<"A", "M", "A", "N", "H", "A">>, kind |-> "rel", d |-> 1, m |-> 0, y |-> 0],
   [text |-> <<"0", "7", "/", "0", "1">>, kind |-> "abs", d |-> 7, m |-> 1, y |-> 0],
   [text |-> <<"1", "6", "/", "1", "2", "/", "2", "0", "2", "5">>, kind |-> "abs", d |-> 16, m |-> 12, y |-> 2025],
   [text |-> <<"2", "9", "/", "0", "2", "/", "2", "4">>, kind |-> "abs", d |-> 29, m |-> 2, y |-> 2024],
   [text |-> <<"3", "1", "/", "0", "2">>, kind |-> "abs", d |-> 31, m |-> 2, y |-> 0],
   [text |-> <<"3", "1", "/", "0", "4", "/", "2", "0", "2", "5">>, kind |-> "abs", d |-> 31, m |-> 4, y |-> 2025]}

Anchors ==
  {[y |-> 2025, m |-> 1, d |-> 1],
   [y |-> 2024, m |-> 2, d |-> 29],
   [y |-> 2025, m |-> 12, d |-> 31]}

\* a and b joined by one space, when both are there
Join(a, b) == IF a = <<>> \/ b = <<>> THEN a \o b ELSE a \o <<" ">> \o b

\* the text typed for a marker, a keyword, an amount token and a date token
MessageText(mk, kw, amt, dt) == mk \o Join(Join(kw, amt.text), dt.text)

Messages ==
  {[marker |-> mk, keyword |-> kw, amount |-> amt, dateToken |-> dt,
    text |-> MessageText(mk, kw, amt, dt)] :
     mk \in Markers, kw \in KeywordTokens, amt \in AmountTokens, dt \in DateTokens}

\* the value of the variable parsed before parse has returned
Pending == ParsedMessage("pending", NullValue, NoDate, <<>>, FALSE, NoDate, {})

\* the sheet, the dispatcher and the history before any message
EmptyMap == [c \in {} |-> 0]

(***************************************************************************)
(* AIService (types/index.ts): the conversation contexts.  Time is in      *)
(* minutes.  A message text is the chat it was said in and its number.     *)
(***************************************************************************)
maxHistorySize == 10

contextTimeout == 30

\* the first entry of every context
SystemMessage == [role |-> "system", content |-> [from |-> "system", n |-> 0]]

\* AIService after construction, with no conversation and no call
\* (made counts the messages said before the first call that is followed)
NoAI ==
  [isEnabled |-> TRUE, clock |-> 0, conversations |-> <<>>, calls |-> <<>>,
   made |-> 0]

\* a variant of expired with a slip: a context never expires
expired_Never(context, now) == FALSE

\* the context has been inactive for more than the timeout at the instant now
expired(context, now) == now - context.lastActivity > contextTimeout

\* the last n entries of a sequence (Array.slice(-n))
LastN(seq, n) ==
  IF Len(seq) <= n THEN seq ELSE SubSeq(seq, Len(seq) - n + 1, Len(seq))

\* getConversationContext: the conversations after the call, in which the
\* chat has a context (a new one if it had none or its own had expired);
\* pushed is history: every message pushed to the context object
getConversationContext(conversations, chatId, now) ==
  IF chatId \notin DOMAIN conversations \/ expired(conversations[chatId], now)
  THEN (chatId :> [chatId |-> chatId, messages |-> <<SystemMessage>>,
                   lastActivity |-> now, pushed |-> <<>>])
       @@ conversations
  ELSE conversations

\* a variant of addToHistory's truncation with a slip: the system prompt is
\* not put back in front of the last messages
truncate_DropsSystemPrompt(messages) ==
  IF Len(messages) > maxHistorySize + 1
  THEN LastN(messages, maxHistorySize + 1)
  ELSE messages

\* addToHistory's truncation: the system prompt and the last N messages
truncate(messages) ==
  IF Len(messages) > maxHistorySize + 1
  THEN <<messages[1]>> \o LastN(messages, maxHistorySize)
  ELSE messages

\* addToHistory
addToHistory(conversations, chatId, role, content, now) ==
  LET cs      == getConversationContext(conversations, chatId, now)
      message == [role |-> role, content |-> content]
  IN [cs EXCEPT ![chatId] =
        [@ EXCEPT !.messages = truncate(Append(@, message)),
                  !.lastActivity = now,
                  !.pushed = Append(@, message)]]

\* cleanupOldConversations
cleanupOldConversations(conversations, now) ==
  [c \in {c \in DOMAIN conversations : ~expired(conversations[c], now)}
     |-> conversations[c]]

\* the function harness when no call is under check, and before a call returns
NoInput ==
  [fn |-> "none", amount |-> 0, month |-> 0, year |-> 0, type |-> "none",
   day |-> 0, other |-> [type |-> "none", day |-> 0, month |-> 0, year |-> 0]]

NoOutput ==
  [done |-> FALSE, text |-> <<>>, back |-> 0, maxDay |-> 0, columnOffset |-> 0,
   blockStart |-> <<>>, entrada |-> <<>>, saida |-> <<>>, diario |-> <<>>,
   daysEnd |-> <<>>, cellRange |-> <<>>, otherCellRange |-> <<>>]

InitParse ==
  /\ msg \in Messages
  /\ anchor \in Anchors
  /\ parsed = Pending
  /\ today = anchor
  /\ cells = EmptyMap
  /\ reqs = EmptyMap
  /\ nextId = 0
  /\ ledger = EmptyMap
  /\ input = NoInput
  /\ output = NoOutput
  /\ ai = NoAI

DoParse ==
  /\ parsed = Pending
  /\ parsed' = parse(msg.text, anchor)
  /\ UNCHANGED <<msg, anchor, today, cells, reqs, nextId, ledger, input, output, ai>>

NextParse == DoParse

SpecParse == InitParse /\ [][NextParse]_vars

(***************************************************************************)
(* SheetUpdater: addressing, cell text and updateValue.                    *)
(***************************************************************************)
startRow == 6

\* a variant of getSheetConfig with a slip: every fourth year is a leap year
getSheetConfig_NoCenturyRule(month, year) ==
  [month |-> month, year |-> year, startRow |-> startRow,
   endRow |-> IF month = 2 THEN (IF year % 4 = 0 THEN 34 ELSE 33)
              ELSE IF month \in {4, 6, 9, 11} THEN 35
              ELSE 36,
   columnOffset |-> (month - 1) * 6]

getSheetConfig(month, year) ==
  [month |-> month, year |-> year, startRow |-> startRow,
   endRow |-> IF month = 2
              THEN (IF (year % 4 = 0 /\ year % 100 # 0) \/ (year % 400 = 0)
                    THEN 34 ELSE 33)
              ELSE IF month \in {4, 6, 9, 11} THEN 35
              ELSE 36,
   columnOffset |-> (month - 1) * 6]

\* columnToLetter: 0 = A, 1 = B, ...; a NaN column leaves the loop at once
RECURSIVE columnToLetter(_)
columnToLetter(column) ==
  IF column >= 0
  THEN columnToLetter((column \div 26) - 1) \o <<UpperChars[(column % 26) + 1]>>
  ELSE <<>>

\* a variant of getColumnLetter with a slip: the month's offset is not added
getColumnLetter_NoOffset(type, columnOffset) ==
  columnToLetter(IF type = "entrada" THEN 2
                 ELSE IF type = "saida" THEN 3
                 ELSE IF type = "diario" THEN 4
                 ELSE NaN)

\* baseColumns[type] + columnOffset; a type baseColumns lacks gives NaN
getColumnLetter(type, columnOffset) ==
  columnToLetter(IF type = "entrada" THEN 2 + columnOffset
                 ELSE IF type = "saida" THEN 3 + columnOffset
                 ELSE IF type = "diario" THEN 4 + columnOffset
                 ELSE NaN)

getRowNumber(day, config) == config.startRow + (day - 1)

\* s.replace(/R\$\s*/g, '')
RECURSIVE RemoveCurrency(_)
RemoveCurrency(s) ==
  IF s = <<>> THEN <<>>
  ELSE IF startsWith(s, <<"R", "$">>)
       THEN RemoveCurrency(From(s, 3 + SpaceRun(s, 3)))
       ELSE <<Head(s)>> \o RemoveCurrency(Tail(s))

\* a variant of parseValue with a slip: the currency symbol is not removed
parseValue_KeepsCurrency(cellValue) ==
  IF trim(cellValue) = <<>> THEN 0
  ELSE LET value == parseFloat(trim(cellValue))
       IN IF isNaN(value) THEN 0 ELSE value

\* parseValue; a blank cell (null or '') is <<>>
parseValue(cellValue) ==
  IF trim(cellValue) = <<>> THEN 0
  ELSE LET noCur   == RemoveCurrency(cellValue)
           noDots  == SelectSeq(noCur, LAMBDA c : c # ".")
           cleaned == trim([i \in 1..Len(noDots) |->
                              IF noDots[i] = "," THEN "." ELSE noDots[i]])
           value   == parseFloat(cleaned)
       IN IF isNaN(value) THEN 0 ELSE value

\* a + b of two numbers; undefined (no value) and NaN give NaN
Plus(a, b) == IF a = NaN \/ b = NaN \/ a = NullValue \/ b = NullValue THEN NaN ELSE a + b

\* a variant of formatValue with a slip: the decimal point is kept
formatValue_KeepsDot(finalValue) ==
  <<"R", "$", " ">>
  \o (IF isNaN(finalValue) THEN <<"N", "a", "N">> ELSE toFixed2(finalValue))

\* `R$ ${finalValue.toFixed(2).replace('.', ',')}`
formatValue(finalValue) ==
  <<"R", "$", " ">>
  \o (IF isNaN(finalValue) THEN <<"N", "a", "N">>
      ELSE replaceFirstChar(toFixed2(finalValue), ".", <<",">>))

\* the UpdateRequest handleMessage builds from a parsed message
UpdateRequest(p) ==
  [type |-> p.type,
   value |-> IF "value" \in p.has THEN p.value ELSE NullValue,
   day |-> p.date.d, month |-> p.date.m, year |-> p.date.y,
   shouldReplace |-> IF "shouldReplace" \in p.has THEN p.shouldReplace ELSE FALSE]

\* updateValue's validations: TRUE when the day is rejected
dayRejected(request) ==
  LET config == getSheetConfig(request.month, request.year)
      maxDay == config.endRow - config.startRow + 1
  IN request.day < 1 \/ request.day > 31 \/ request.day > maxDay

\* `${columnLetter}${rowNumber}`
cellRange(request) ==
  LET config == getSheetConfig(request.month, request.year)
  IN getColumnLetter(request.type, config.columnOffset)
     \o NatToText(getRowNumber(request.day, config))

\* a variant of finalValue with a slip: the current value is not added
finalValue_NoSum(request, currentValue) == request.value

\* the value to write, given what readCell returned (not called when replacing)
finalValue(request, currentValue) ==
  IF request.shouldReplace THEN request.value
  ELSE Plus(currentValue, request.value)

(***************************************************************************)
(* SheetUpdater's pure computations, each applied to one input: the cell   *)
(* text written for an amount and read back, the layout of a month, and    *)
(* the columns of a month's block.                                         *)
(***************************************************************************)
MaxCents == 120

\* amounts in thousandths with at most two decimal places: every amount up to
\* MaxCents cents, and some of 1000 or more
CellAmounts ==
  {10 * c : c \in 0..MaxCents}
  \cup {999990, 1000000, 1234560, 100000000, 2000000990}

Years == {1900, 2000, 2023, 2024, 2025, 2100}

\* the requests of two updates: a field and a valid date each
Dated ==
  [type : {"entrada", "saida", "diario"}, day : {1, 16, 28}, month : {1, 2, 12},
   year : {2024, 2025}]

SheetInputs ==
  {[NoInput EXCEPT !.fn = "roundTrip", !.amount = a] : a \in CellAmounts}
  \cup {[NoInput EXCEPT !.fn = f, !.month = m, !.year = y] :
          f \in {"config", "columns"}, m \in 1..12, y \in Years}
  \cup {[NoInput EXCEPT !.fn = "cellRange", !.type = a.type, !.day = a.day,
                        !.month = a.month, !.year = a.year, !.other = b] :
          a \in Dated, b \in Dated}

InitSheet ==
  /\ msg \in {m \in Messages : m.text = <<>>}
  /\ anchor \in Anchors
  /\ parsed = Pending
  /\ today = anchor
  /\ cells = EmptyMap
  /\ reqs = EmptyMap
  /\ nextId = 0
  /\ ledger = EmptyMap
  /\ input \in SheetInputs
  /\ output = NoOutput
  /\ ai = NoAI

\* updateValue formats the amount for writeCell; parseValue reads that text
FormatAndParse ==
  /\ input.fn = "roundTrip"
  /\ ~output.done
  /\ output' = [NoOutput EXCEPT !.done = TRUE,
                                !.text = formatValue(input.amount),
                                !.back = parseValue(formatValue(input.amount))]
  /\ UNCHANGED <<msg, anchor, parsed, today, cells, reqs, nextId, ledger, input, ai>>

\* getSheetConfig and the number of days updateValue derives from it
SheetConfigOf ==
  /\ input.fn = "config"
  /\ ~output.done
  /\ LET config == getSheetConfig(input.month, input.year)
     IN output' = [NoOutput EXCEPT !.done = TRUE,
                                   !.maxDay = config.endRow - config.startRow + 1,
                                   !.columnOffset = config.columnOffset]
  /\ UNCHANGED <<msg, anchor, parsed, today, cells, reqs, nextId, ledger, input, ai>>

\* the column letters computed for a month: the three update columns
\* (getColumnLetter), the block's first column (getMonthTotals' saidaTotalCol)
\* and the last column of the days range (getMonthTotals' endCol)
ColumnsOf ==
  /\ input.fn = "columns"
  /\ ~output.done
  /\ LET config == getSheetConfig(input.month, input.year)
     IN output' = [NoOutput EXCEPT
          !.done = TRUE,
          !.columnOffset = config.columnOffset,
          !.blockStart = columnToLetter(1 + config.columnOffset),
          !.entrada = getColumnLetter("entrada", config.columnOffset),
          !.saida = getColumnLetter("saida", config.columnOffset),
          !.diario = getColumnLetter("diario", config.columnOffset),
          !.daysEnd = columnToLetter(5 + config.columnOffset)]
  /\ UNCHANGED <<msg, anchor, parsed, today, cells, reqs, nextId, ledger, input, ai>>

\* the cells two updates address
CellRangesOf ==
  /\ input.fn = "cellRange"
  /\ ~output.done
  /\ output' = [NoOutput EXCEPT !.done = TRUE,
                                !.cellRange = cellRange(input),
                                !.otherCellRange = cellRange(input.other)]
  /\ UNCHANGED <<msg, anchor, parsed, today, cells, reqs, nextId, ledger, input, ai>>

NextSheet == FormatAndParse \/ SheetConfigOf \/ ColumnsOf \/ CellRangesOf

SpecSheet == InitSheet /\ [][NextSheet]_vars

(***************************************************************************)
(* The dispatcher and the transport.  server.ts calls handleMessage from   *)
(* the socket's 'user-message' listener, once per message, as it arrives.  *)
(* A handleMessage invocation runs from one await to the next without      *)
(* interruption; each action below is one such stretch.  The storage       *)
(* collaborator (readCell, writeCell, readRange) answers each call at some *)
(* later moment, with a result or with an exception.                       *)
(***************************************************************************)
MaxMessages == 3

Chats == {"chat1", "chat2"}

\* the message with the given parts
Message(mk, kw, amt, dt) ==
  CHOOSE m \in Messages :
    m.marker = mk /\ m.keyword = kw /\ m.amount.text = amt /\ m.dateToken.text = dt

M_entrada517    == Message(<<>>, W_entrada, <<"5", "1", "7">>, <<>>)
M_entrada8710   == Message(<<>>, W_entrada, <<"8", "7", ",", "1", "0">>, <<>>)
M_entrada0004   == Message(<<>>, W_entrada, <<"0", ",", "0", "0", "4">>, <<>>)
M_subEntrada    == Message(<<"s", "u", "b", " ">>, W_entrada,
                           <<"8", "7", ",", "1", "0">>, <<>>)
M_entrada3102   == Message(<<>>, W_entrada, <<"5", "1", "7">>,
                           <<"3", "1", "/", "0", "2">>)
M_ajuda         == Message(<<>>, W_ajuda, <<>>, <<>>)
M_help          == Message(<<>>, W_help, <<>>, <<>>)
M_question      == Message(<<>>, W_question, <<>>, <<>>)
M_oi            == Message(<<>>, <<"o", "i">>, <<>>, <<>>)

\* what each chat sends when the chats do not wait for replies
ConcurrentMessages(ch) ==
  IF ch = "chat1" THEN {M_entrada517, M_entrada8710} ELSE {M_entrada517}

\* the messages of the chat that waits for each reply
SequentialMessages ==
  {M_entrada517, M_entrada0004, M_subEntrada, M_entrada3102,
   M_ajuda, M_help, M_question, M_oi}

SysAnchors == {[y |-> 2025, m |-> 1, d |-> 31]}

\* the types whose handling is modelled here: the updates and what falls
\* through to them, and the day, week, month, performance and forecast reports
HandledTypes ==
  {NullType, "ajuda", "entrada", "saida", "diario",
   "hoje", "saldo", "semana", "mes", "performance", "previsao", "comparar"}

\* the text of a cell of the sheet (blank when never written)
CellText(c) == IF c \in DOMAIN cells THEN cells[c] ELSE <<>>

\* the letters of the spreadsheet column with 0-based index n (n < 702)
ColumnName(n) ==
  IF n < 26 THEN <<UpperChars[n + 1]>>
  ELSE <<UpperChars[n \div 26], UpperChars[(n % 26) + 1]>>

\* the 0-based index of the column with the given letters
ColumnIndex(letters) == CHOOSE n \in 0..701 : ColumnName(n) = letters

\* s without its trailing elements equal to blank
RECURSIVE TrimTrailing(_, _)
TrimTrailing(s, blank) ==
  IF s = <<>> THEN s
  ELSE IF s[Len(s)] = blank THEN TrimTrailing(SubSeq(s, 1, Len(s) - 1), blank)
  ELSE s

\* a range of the sheet, and the A1 text `${c1}${r1}:${c2}${r2}` naming it
Range(c1, r1, c2, r2) == [startCol |-> c1, startRow |-> r1, endCol |-> c2, endRow |-> r2]

RangeText(rg) ==
  rg.startCol \o NatToText(rg.startRow) \o <<":">> \o rg.endCol \o NatToText(rg.endRow)

\* the grid readRange answers with: one row per sheet row, one text per
\* column, trailing blank cells of a row and trailing blank rows left out
readRangeResult(rg) ==
  LET i1 == ColumnIndex(rg.startCol)
      i2 == ColumnIndex(rg.endCol)
      RowOf(r) == TrimTrailing([k \in 1..(i2 - i1 + 1) |->
                                  CellText(ColumnName(i1 + k - 1) \o NatToText(r))],
                               <<>>)
  IN TrimTrailing([k \in 1..(rg.endRow - rg.startRow + 1) |-> RowOf(rg.startRow + k - 1)],
                  <<>>)

\* what batchRead answers with: the text of each coordinate asked for
batchReadResult(ranges) == [k \in 1..Len(ranges) |-> CellText(ranges[k])]

(***************************************************************************)
(* SheetUpdater's reports: what they ask the store for and what they make  *)
(* of the answers.                                                         *)
(***************************************************************************)

\* getDayData's range: from the entrada column to columnToLetter(6 + offset)
dayRange(day, month, year) ==
  LET config    == getSheetConfig(month, year)
      rowNumber == getRowNumber(day, config)
  IN Range(getColumnLetter("entrada", config.columnOffset), rowNumber,
           columnToLetter(6 + config.columnOffset), rowNumber)

\* row[k - 1] || null: a cell the row does not reach is null
Field(row, k) == IF k <= Len(row) THEN row[k] ELSE <<>>

\* the DayData getDayData returns for the grid readRange answered with
DayData(day, month, year, values) ==
  IF values = <<>>
  THEN [day |-> day, month |-> month, year |-> year,
        entrada |-> 0, saida |-> 0, diario |-> 0, saldo |-> 0]
  ELSE LET row == values[1]
       IN [day |-> day, month |-> month, year |-> year,
           entrada |-> parseValue(Field(row, 1)),
           saida |-> parseValue(Field(row, 2)),
           diario |-> parseValue(Field(row, 3)),
           saldo |-> parseValue(Field(row, 4))]

\* getMonthTotals' five coordinates: the totals of row 40 and row 43
monthRanges(month, year) ==
  LET off == getSheetConfig(month, year).columnOffset
  IN <<columnToLetter(2 + off) \o <<"4", "0">>,
       columnToLetter(3 + off) \o <<"4", "0">>,
       columnToLetter(4 + off) \o <<"4", "0">>,
       columnToLetter(1 + off) \o <<"4", "3">>,
       columnToLetter(4 + off) \o <<"4", "3">>>>

\* getMonthTotals' daysRange, with the clock read after batchRead returned
daysRange(month, year, now) ==
  LET config         == getSheetConfig(month, year)
      isCurrentMonth == month = now.m /\ year = now.y
      maxDay         == IF isCurrentMonth THEN now.d
                        ELSE config.endRow - config.startRow + 1
  IN Range(getColumnLetter("entrada", config.columnOffset), config.startRow,
           columnToLetter(5 + config.columnOffset), config.startRow + maxDay - 1)

\* diasComDados: the rows with at least 3 cells and an amount above 0
countDaysWithData(daysData) ==
  Cardinality({k \in 1..Len(daysData) :
                 /\ Len(daysData[k]) >= 3
                 /\ \/ parseValue(Field(daysData[k], 1)) > 0
                    \/ parseValue(Field(daysData[k], 2)) > 0
                    \/ parseValue(Field(daysData[k], 3)) > 0})

\* a / b; a division by zero gives Infinity or NaN, held as NaN
Div(a, b) == IF b = 0 THEN NaN ELSE a \div b

NoSummary ==
  [present |-> FALSE, month |-> 0, year |-> 0, totalEntradas |-> 0,
   totalSaidas |-> 0, totalDiario |-> 0, saidaTotal |-> 0, performance |-> 0,
   diasComDados |-> 0, mediaDiaria |-> 0]

\* the MonthSummary getMonthTotals returns
MonthSummary(month, year, results, diasComDados) ==
  LET totalEntradas == parseValue(results[1])
      totalSaidas   == parseValue(results[2])
      totalDiario   == parseValue(results[3])
  IN [present |-> TRUE, month |-> month, year |-> year,
      totalEntradas |-> totalEntradas,
      totalSaidas |-> totalSaidas,
      totalDiario |-> totalDiario,
      saidaTotal |-> parseValue(results[4]),
      performance |-> parseValue(results[5]),
      diasComDados |-> diasComDados,
      mediaDiaria |-> IF diasComDados > 0
                      THEN Div(totalEntradas + totalSaidas + totalDiario, diasComDados)
                      ELSE 0]

\* what a report of the month renders from getMonthTotals' answer: the reply
\* and the figure it computes by a division (the daily average of the
\* complete month report, the percentage of the performance report, the daily
\* average of total spending of the forecast)
monthReport(op, summary) ==
  IF op = "mes"
  THEN IF ~summary.present THEN [reply |-> "monthFailed", figure |-> 0]
       ELSE [reply |-> "monthComplete", figure |-> summary.mediaDiaria]
  ELSE IF op = "performance"
  THEN IF ~summary.present THEN [reply |-> "performanceFailed", figure |-> 0]
       ELSE [reply |-> "performance",
             figure |-> IF summary.totalEntradas > 0
                        THEN Div(summary.performance * 100, summary.totalEntradas)
                        ELSE 0]
  ELSE IF ~summary.present \/ summary.diasComDados = 0
       THEN [reply |-> "forecastNoData", figure |-> 0]
       ELSE [reply |-> "forecast",
             figure |-> Div(summary.totalSaidas + summary.totalDiario,
                            summary.diasComDados)]

\* getComparisonReport's previous month
previousMonthOf(now) ==
  IF now.m - 1 = 0 THEN [m |-> 12, y |-> now.y - 1]
  ELSE [m |-> now.m - 1, y |-> now.y]

\* a variant of comparison with a slip: only the current month is tested
comparison_IgnoresPrevious(current, previous) ==
  IF ~current.present
  THEN [reply |-> "compareFailed", diffs |-> <<0, 0, 0>>]
  ELSE [reply |-> "comparison",
        diffs |-> <<current.totalEntradas - previous.totalEntradas,
                    current.saidaTotal - previous.saidaTotal,
                    current.performance - previous.performance>>]

\* what getComparisonReport renders from the two summaries: the reply and
\* diffEntradas, diffSaidas, diffPerformance
comparison(current, previous) ==
  IF ~current.present \/ ~previous.present
  THEN [reply |-> "compareFailed", diffs |-> <<0, 0, 0>>]
  ELSE [reply |-> "comparison",
        diffs |-> <<current.totalEntradas - previous.totalEntradas,
                    current.saidaTotal - previous.saidaTotal,
                    current.performance - previous.performance>>]

\* one of the two getMonthTotals calls of getComparisonReport: the await it
\* is at, its arguments, batchRead's answer, the range asked for, its result
MonthTotalsCall(pc, month, year) ==
  [pc |-> pc, month |-> month, year |-> year, results |-> <<>>,
   range |-> Range(<<>>, 0, <<>>, 0), summary |-> NoSummary]

\* the report state of an invocation: the report (op), getWeekReport's loop
\* index i and the date it reads, the days pushed and their totals, the saldo
\* of the last day pushed, the range asked for, batchRead's answer, the
\* summary, the figure rendered, the storage calls that threw, and for
\* getComparisonReport its two getMonthTotals calls, the order in which they
\* returned (history) and the differences rendered
NoReport ==
  [op |-> "none", i |-> 0, date |-> NoDate, days |-> 0,
   totalEntradas |-> 0, totalSaidas |-> 0, totalDiario |-> 0, saldo |-> 0,
   range |-> Range(<<>>, 0, <<>>, 0), results |-> <<>>, summary |-> NoSummary,
   figure |-> 0, failures |-> 0, parts |-> <<>>, order |-> <<>>,
   diffs |-> <<0, 0, 0>>]

InFlight(r) == r.pc # "done"

Ids == DOMAIN reqs

\* a handleMessage invocation: the message, the clock when it arrived, the
\* await it is suspended at (pc), the request it works on, the coordinate it
\* addresses, the value readCell gave it, the text it writes, the reply it
\* returned, and the storage calls it made
Invocation(ch, m, pc, request, at, reply, calls) ==
  [chat |-> ch, msg |-> m, now |-> today, pc |-> pc, request |-> request,
   at |-> at, cur |-> 0, written |-> <<>>, reply |-> reply, calls |-> calls,
   rep |-> NoReport]

Call(op, at) == [op |-> op, at |-> at]

\* updateValue up to its first await
updateValue(ch, m, request) ==
  IF dayRejected(request)
  THEN Invocation(ch, m, "done", request, <<>>, "invalidDay", <<>>)
  ELSE IF request.shouldReplace
  THEN [Invocation(ch, m, "writeCell", request, cellRange(request), "",
                   <<Call("writeCell", cellRange(request))>>)
          EXCEPT !.written = formatValue(finalValue(request, 0))]
  ELSE Invocation(ch, m, "readCell", request, cellRange(request), "",
                  <<Call("readCell", cellRange(request))>>)

\* the texts ts joined by commas
RECURSIVE JoinTexts(_)
JoinTexts(ts) ==
  IF ts = <<>> THEN <<>>
  ELSE IF Len(ts) = 1 THEN ts[1]
  ELSE ts[1] \o <<",">> \o JoinTexts(Tail(ts))

\* an invocation suspended at readRange for the range of its report state
readRangeCall(ch, m, p, rp) ==
  [Invocation(ch, m, "readRange", UpdateRequest(p), RangeText(rp.range), "",
              <<Call("readRange", RangeText(rp.range))>>)
     EXCEPT !.rep = rp]

\* getDayReport up to getDayData's await
getDayReport(ch, m, p, date) ==
  readRangeCall(ch, m, p,
                [NoReport EXCEPT !.op = "day", !.date = date,
                                 !.range = dayRange(date.d, date.m, date.y)])

\* getWeekReport up to the first getDayData's await (i = 6)
getWeekReport(ch, m, p) ==
  LET date == setDate(today, -6)
  IN readRangeCall(ch, m, p,
                   [NoReport EXCEPT !.op = "week", !.i = 6, !.date = date,
                                    !.range = dayRange(date.d, date.m, date.y)])

\* getCompleteMonthReport, getPerformanceReport or getForecastReport (op) up
\* to getMonthTotals' batchRead, for the month of today
getMonthTotals(ch, m, p, op) ==
  LET ranges == JoinTexts(monthRanges(today.m, today.y))
  IN [Invocation(ch, m, "batchRead", UpdateRequest(p), ranges, "",
                 <<Call("batchRead", ranges)>>)
        EXCEPT !.rep = [NoReport EXCEPT !.op = op, !.date = today]]

\* getComparisonReport up to `await Promise.all`: both getMonthTotals calls
\* have run up to their batchRead
getComparisonReport(ch, m, p) ==
  LET previous == previousMonthOf(today)
  IN [Invocation(ch, m, "Promise.all", UpdateRequest(p), <<>>, "",
                 <<Call("batchRead", JoinTexts(monthRanges(today.m, today.y))),
                   Call("batchRead", JoinTexts(monthRanges(previous.m, previous.y)))>>)
        EXCEPT !.rep = [NoReport EXCEPT
                          !.op = "compare", !.date = today,
                          !.parts = <<MonthTotalsCall("batchRead", today.m, today.y),
                                      MonthTotalsCall("batchRead", previous.m,
                                                      previous.y)>>]]

\* handleQueryCommand
handleQueryCommand(ch, m, p) ==
  IF p.type = "hoje" THEN getDayReport(ch, m, p, today)
  ELSE IF p.type = "semana" THEN getWeekReport(ch, m, p)
  ELSE getMonthTotals(ch, m, p, "mes")

\* handleMessage up to its first await, for a parsed message p of a handled
\* type: null gets the help text, the report types their report, and
\* everything else is an update
handleMessage(ch, m, p) ==
  IF p.type = NullType
  THEN Invocation(ch, m, "done", UpdateRequest(p), <<>>, "help", <<>>)
  ELSE IF p.type = "performance" THEN getMonthTotals(ch, m, p, "performance")
  ELSE IF p.type = "comparar" THEN getComparisonReport(ch, m, p)
  ELSE IF p.type = "previsao" THEN getMonthTotals(ch, m, p, "previsao")
  ELSE IF p.type = "saldo" /\ "targetDate" \in p.has /\ p.targetDate # NoDate
  THEN getDayReport(ch, m, p, p.targetDate)
  ELSE IF p.type \in {"hoje", "semana", "mes"} THEN handleQueryCommand(ch, m, p)
  ELSE updateValue(ch, m, UpdateRequest(p))

InitSystem ==
  /\ msg \in {m \in Messages : m.text = <<>>}
  /\ anchor \in SysAnchors
  /\ parsed = Pending
  /\ today = anchor
  /\ cells = EmptyMap
  /\ reqs = EmptyMap
  /\ nextId = 0
  /\ ledger = EmptyMap
  /\ input = NoInput
  /\ output = NoOutput
  /\ ai = NoAI

\* a message arrives and the listener starts handleMessage on it
Deliver(ch, m) ==
  /\ nextId < MaxMessages
  /\ parse(m.text, today).type \in HandledTypes
  /\ nextId' = nextId + 1
  /\ reqs' = [i \in Ids \cup {nextId + 1} |->
                IF i \in Ids THEN reqs[i]
                ELSE handleMessage(ch, m, parse(m.text, today))]
  /\ UNCHANGED <<msg, anchor, parsed, today, cells, ledger, input, output, ai>>

\* socket.on('user-message', async ...): nothing holds a message back while an
\* earlier one, of the same socket or of another, is awaiting the store
Receive == \E ch \in Chats : \E m \in ConcurrentMessages(ch) : Deliver(ch, m)

\* the same listener when one chat sends each message after the reply to the
\* one before
ReceiveSequential ==
  /\ \A i \in Ids : ~InFlight(reqs[i])
  /\ \E m \in SequentialMessages : Deliver("chat1", m)

\* readCell returns: the sum is formed and writeCell is called
ReadCellReturns(i) ==
  /\ reqs[i].pc = "readCell"
  /\ LET r   == reqs[i]
         cur == parseValue(CellText(r.at))
     IN reqs' = [reqs EXCEPT ![i] =
                   [r EXCEPT !.pc = "writeCell",
                             !.cur = cur,
                             !.written = formatValue(finalValue(r.request, cur)),
                             !.calls = Append(r.calls, Call("writeCell", r.at))]]
  /\ UNCHANGED <<msg, anchor, parsed, today, cells, nextId, ledger, input, output, ai>>

\* history: one more storage call of the invocation has thrown
failed(r) == [r EXCEPT !.rep = [@ EXCEPT !.failures = @ + 1]]

\* a variant of caught with a slip: the exception is not caught
caught_Propagates(r, reply) == [r EXCEPT !.pc = "raised"]

\* an exception thrown in updateValue's try block (itself inside
\* handleMessage's) lands in its catch, which returns the failure response
caught(r, reply) == [r EXCEPT !.pc = "done", !.reply = reply]

\* readCell or writeCell throws: updateValue's catch returns the failure response
StorageFails(i) ==
  /\ reqs[i].pc \in {"readCell", "writeCell"}
  /\ reqs' = [reqs EXCEPT ![i] = caught(failed(reqs[i]), "saveError")]
  /\ UNCHANGED <<msg, anchor, parsed, today, cells, nextId, ledger, input, output, ai>>

\* writeCell returns: the cell holds the text, and the success message is built
\* (value.toFixed(2) throws into updateValue's catch when there is no value)
WriteCellReturns(i) ==
  /\ reqs[i].pc = "writeCell"
  /\ LET r == reqs[i]
     IN /\ cells' = [c \in DOMAIN cells \cup {r.at} |->
                       IF c = r.at THEN r.written ELSE cells[c]]
        /\ ledger' = [c \in DOMAIN ledger \cup {r.at} |->
                        IF c = r.at THEN Append(IF c \in DOMAIN ledger
                                                THEN ledger[c] ELSE <<>>, i)
                        ELSE ledger[c]]
        /\ reqs' = [reqs EXCEPT ![i] =
                      IF r.request.value = NullValue
                      THEN caught(r, "saveError")
                      ELSE [r EXCEPT !.pc = "done", !.reply = "updated"]]
  /\ UNCHANGED <<msg, anchor, parsed, today, nextId, input, output, ai>>

StoreAnswers ==
  \E i \in Ids :
    \/ ReadCellReturns(i)
    \/ WriteCellReturns(i)
    \/ StorageFails(i)

Next == Receive \/ StoreAnswers

Spec == InitSystem /\ [][Next]_vars

NextSeq == ReceiveSequential \/ StoreAnswers

SpecSeq == InitSystem /\ [][NextSeq]_vars

(***************************************************************************)
(* The reports.  One command is handled from a sheet that holds some days  *)
(* and totals; every storage call answers with a result or throws.         *)
(***************************************************************************)

\* getWeekReport after getDayData returned dayData (ok) or null: the day is
\* pushed and added, and the loop goes on to the next day or renders
weekStep(r, dayData, ok) ==
  LET rp  == r.rep
      acc == IF ok
             THEN [rp EXCEPT !.days = @ + 1,
                             !.totalEntradas = @ + dayData.entrada,
                             !.totalSaidas = @ + dayData.saida,
                             !.totalDiario = @ + dayData.diario,
                             !.saldo = dayData.saldo]
             ELSE [rp EXCEPT !.failures = @ + 1]
  IN IF rp.i > 0
     THEN LET date == setDate(r.now, -(rp.i - 1))
              next == [acc EXCEPT !.i = rp.i - 1, !.date = date,
                                  !.range = dayRange(date.d, date.m, date.y)]
          IN [r EXCEPT !.rep = next, !.at = RangeText(next.range),
                       !.calls = Append(@, Call("readRange", RangeText(next.range)))]
     ELSE [r EXCEPT !.rep = acc, !.pc = "done", !.reply = "week"]

\* the report of the month rendered from getMonthTotals' answer
monthFinish(r, summary) ==
  LET out == monthReport(r.rep.op, summary)
  IN [r EXCEPT !.pc = "done", !.reply = out.reply,
               !.rep = [@ EXCEPT !.summary = summary, !.figure = out.figure]]

\* readRange returns its grid
ReadRangeReturns(i) ==
  /\ reqs[i].pc = "readRange"
  /\ LET r      == reqs[i]
         rp     == r.rep
         values == readRangeResult(rp.range)
         data   == DayData(rp.date.d, rp.date.m, rp.date.y, values)
     IN reqs' = [reqs EXCEPT ![i] =
          IF rp.op = "day"
          THEN [r EXCEPT !.pc = "done", !.reply = "day",
                         !.rep = [@ EXCEPT !.days = 1,
                                           !.totalEntradas = data.entrada,
                                           !.totalSaidas = data.saida,
                                           !.totalDiario = data.diario,
                                           !.saldo = data.saldo]]
          ELSE IF rp.op = "week" THEN weekStep(r, data, TRUE)
          ELSE monthFinish(r, MonthSummary(rp.date.m, rp.date.y, rp.results,
                                           countDaysWithData(values)))]
  /\ UNCHANGED <<msg, anchor, parsed, today, cells, nextId, ledger, input, output, ai>>

\* readRange throws: getDayData's catch returns null; getMonthTotals' inner
\* catch keeps diasComDados = 0
ReadRangeFails(i) ==
  /\ reqs[i].pc = "readRange"
  /\ LET r  == failed(reqs[i])
         rp == r.rep
     IN reqs' = [reqs EXCEPT ![i] =
          IF rp.op = "day" THEN [r EXCEPT !.pc = "done", !.reply = "dayFailed"]
          ELSE IF rp.op = "week" THEN weekStep(r, NoSummary, FALSE)
          ELSE monthFinish(r, MonthSummary(rp.date.m, rp.date.y, rp.results, 0))]
  /\ UNCHANGED <<msg, anchor, parsed, today, cells, nextId, ledger, input, output, ai>>

\* batchRead returns the five totals: getMonthTotals reads the clock and asks
\* for the days of the month
BatchReadReturns(i) ==
  /\ reqs[i].pc = "batchRead"
  /\ LET r      == reqs[i]
         ranges == monthRanges(r.rep.date.m, r.rep.date.y)
         range  == daysRange(r.rep.date.m, r.rep.date.y, today)
     IN reqs' = [reqs EXCEPT ![i] =
          [r EXCEPT !.pc = "readRange", !.at = RangeText(range),
                    !.calls = Append(@, Call("readRange", RangeText(range))),
                    !.rep = [@ EXCEPT !.results = batchReadResult(ranges),
                                      !.range = range]]]
  /\ UNCHANGED <<msg, anchor, parsed, today, cells, nextId, ledger, input, output, ai>>

\* batchRead throws: getMonthTotals' catch returns null
BatchReadFails(i) ==
  /\ reqs[i].pc = "batchRead"
  /\ reqs' = [reqs EXCEPT ![i] = monthFinish(failed(reqs[i]), NoSummary)]
  /\ UNCHANGED <<msg, anchor, parsed, today, cells, nextId, ledger, input, output, ai>>

ReportAnswers ==
  \E i \in Ids :
    \/ ReadRangeReturns(i)
    \/ ReadRangeFails(i)
    \/ BatchReadReturns(i)
    \/ BatchReadFails(i)

\* getComparisonReport after its k-th getMonthTotals call took a step to
\* part: when both have returned, Promise.all resolves and the report is
\* rendered
settle(r, k, part) ==
  LET parts == [r.rep.parts EXCEPT ![k] = part]
      order == IF part.pc = "done" THEN Append(r.rep.order, k) ELSE r.rep.order
      out   == comparison(parts[1].summary, parts[2].summary)
  IN IF \A j \in 1..2 : parts[j].pc = "done"
     THEN [r EXCEPT !.pc = "done", !.reply = out.reply,
                    !.rep = [@ EXCEPT !.parts = parts, !.order = order,
                                      !.diffs = out.diffs]]
     ELSE [r EXCEPT !.rep = [@ EXCEPT !.parts = parts, !.order = order]]

\* the batchRead of the k-th getMonthTotals call returns
CompareBatchReadReturns(i, k) ==
  /\ reqs[i].pc = "Promise.all"
  /\ reqs[i].rep.parts[k].pc = "batchRead"
  /\ LET part  == reqs[i].rep.parts[k]
         range == daysRange(part.month, part.year, today)
         r     == [reqs[i] EXCEPT
                     !.calls = Append(@, Call("readRange", RangeText(range)))]
     IN reqs' = [reqs EXCEPT ![i] =
          settle(r, k, [part EXCEPT
                          !.pc = "readRange", !.range = range,
                          !.results = batchReadResult(monthRanges(part.month,
                                                                  part.year))])]
  /\ UNCHANGED <<msg, anchor, parsed, today, cells, nextId, ledger, input, output, ai>>

\* the batchRead of the k-th getMonthTotals call throws: it returns null
CompareBatchReadFails(i, k) ==
  /\ reqs[i].pc = "Promise.all"
  /\ reqs[i].rep.parts[k].pc = "batchRead"
  /\ reqs' = [reqs EXCEPT ![i] =
       settle(failed(reqs[i]), k, [reqs[i].rep.parts[k] EXCEPT !.pc = "done"])]
  /\ UNCHANGED <<msg, anchor, parsed, today, cells, nextId, ledger, input, output, ai>>

\* the readRange of the k-th getMonthTotals call returns
CompareReadRangeReturns(i, k) ==
  /\ reqs[i].pc = "Promise.all"
  /\ reqs[i].rep.parts[k].pc = "readRange"
  /\ LET part == reqs[i].rep.parts[k]
     IN reqs' = [reqs EXCEPT ![i] =
          settle(reqs[i], k,
                 [part EXCEPT
                    !.pc = "done",
                    !.summary = MonthSummary(part.month, part.year, part.results,
                                  countDaysWithData(readRangeResult(part.range)))])]
  /\ UNCHANGED <<msg, anchor, parsed, today, cells, nextId, ledger, input, output, ai>>

\* the readRange of the k-th getMonthTotals call throws: diasComDados is 0
CompareReadRangeFails(i, k) ==
  /\ reqs[i].pc = "Promise.all"
  /\ reqs[i].rep.parts[k].pc = "readRange"
  /\ LET part == reqs[i].rep.parts[k]
     IN reqs' = [reqs EXCEPT ![i] =
          settle(failed(reqs[i]), k,
                 [part EXCEPT
                    !.pc = "done",
                    !.summary = MonthSummary(part.month, part.year, part.results, 0)])]
  /\ UNCHANGED <<msg, anchor, parsed, today, cells, nextId, ledger, input, output, ai>>

CompareAnswers ==
  \E i \in Ids, k \in 1..2 :
    \/ CompareBatchReadReturns(i, k)
    \/ CompareBatchReadFails(i, k)
    \/ CompareReadRangeReturns(i, k)
    \/ CompareReadRangeFails(i, k)

M_semana      == Message(<<>>, W_semana, <<>>, <<>>)
M_mes         == Message(<<>>, W_mes, <<>>, <<>>)
M_performance == Message(<<>>, W_performance, <<>>, <<>>)
M_previsao    == Message(<<>>, W_previsao, <<>>, <<>>)
M_hoje        == Message(<<>>, W_hoje, <<>>, <<>>)
M_saldoOntem  == Message(<<>>, W_saldo, <<>>, W_ontem)
M_comparar    == Message(<<>>, W_comparar, <<>>, <<>>)

ReportMessages ==
  {M_semana, M_mes, M_performance, M_previsao, M_hoje, M_saldoOntem,
   M_comparar, M_entrada517, M_subEntrada, M_ajuda, M_oi}

\* a sheet with the 25th (entrada only) and the 31st of January filled, the
\* totals of row 40, in row 43 the given total spending, an entrada on the
\* 31st of December with December's totals, and the entradas of February
\* and March
SheetWith(saidaTotal) ==
  (<<"C", "3", "0">> :> formatValue(10000))
  @@ (<<"B", "Q", "3", "6">> :> formatValue(7000))
  @@ (<<"B", "Q", "4", "0">> :> formatValue(7000))
  @@ (<<"B", "S", "4", "3">> :> formatValue(7000))
  @@ (<<"I", "4", "0">> :> formatValue(5000))
  @@ (<<"O", "4", "0">> :> formatValue(9000))
  @@ (<<"C", "3", "6">> :> formatValue(100000))
  @@ (<<"D", "3", "6">> :> formatValue(30000))
  @@ (<<"E", "3", "6">> :> formatValue(20000))
  @@ (<<"F", "3", "6">> :> formatValue(50000))
  @@ (<<"C", "4", "0">> :> formatValue(110000))
  @@ (<<"D", "4", "0">> :> formatValue(30000))
  @@ (<<"E", "4", "0">> :> formatValue(20000))
  @@ (<<"B", "4", "3">> :> formatValue(saidaTotal))
  @@ (<<"E", "4", "3">> :> formatValue(60000))

\* the sheets: blank, with totals that add up, and with a total spending in
\* row 43 that is not the sum of row 40's
ReportSheets == {EmptyMap, SheetWith(50000), SheetWith(45000)}

\* the days on which the command arrives: the last day of a month, the day
\* before it, a day whose week began in the year before, and a day of March
ReportAnchors ==
  {[y |-> 2025, m |-> 1, d |-> 31], [y |-> 2025, m |-> 1, d |-> 30],
   [y |-> 2025, m |-> 1, d |-> 3], [y |-> 2025, m |-> 3, d |-> 1]}

InitReports ==
  /\ msg \in {m \in Messages : m.text = <<>>}
  /\ anchor \in ReportAnchors
  /\ parsed = Pending
  /\ today = anchor
  /\ cells \in ReportSheets
  /\ reqs = EmptyMap
  /\ nextId = 0
  /\ ledger = EmptyMap
  /\ input = NoInput
  /\ output = NoOutput
  /\ ai = NoAI

\* the one command of the behaviour arrives
ReceiveReport ==
  /\ reqs = EmptyMap
  /\ \E m \in ReportMessages : Deliver("chat1", m)

\* the wall clock passes midnight (once)
Midnight ==
  /\ today = anchor
  /\ today' = setDate(today, 1)
  /\ UNCHANGED <<msg, anchor, parsed, cells, reqs, nextId, ledger, input, output, ai>>

NextReports ==
  ReceiveReport \/ StoreAnswers \/ ReportAnswers \/ CompareAnswers \/ Midnight

SpecReports == InitReports /\ [][NextReports]_vars

(***************************************************************************)
(* What a reader takes a message to say.                                   *)
(***************************************************************************)
AddTypes == {"entrada", "saida", "diario"}

\* the calendar date a date token names at the anchor date now
TokenDate(dt, now) ==
  IF dt.kind = "none" THEN now
  ELSE IF dt.kind = "rel" THEN NewDate(now.y, now.m - 1, now.d + dt.d)
  ELSE [y |-> IF dt.y = 0 THEN now.y ELSE dt.y, m |-> dt.m, d |-> dt.d]

\* the date token names a day that exists
TokenValid(dt, now) ==
  dt.kind = "abs" => dt.d <= DaysInMonth(TokenDate(dt, now).y, dt.m)

\* the closed set of intents, and the intent of a value parse returns
ClosedIntents ==
  {"AddEntrada", "AddSaida", "AddDiario", "QuerySaldoToday", "QuerySaldoDate",
   "QueryWeek", "QueryMonth", "Performance", "Compare", "Forecast", "Help",
   "Unrecognized"}

IntentOf(p) ==
  IF p.type = NullType THEN "Unrecognized"
  ELSE IF p.type = "entrada" THEN "AddEntrada"
  ELSE IF p.type = "saida" THEN "AddSaida"
  ELSE IF p.type = "diario" THEN "AddDiario"
  ELSE IF p.type = "hoje" THEN "QuerySaldoToday"
  ELSE IF p.type = "saldo" /\ "targetDate" \in p.has THEN "QuerySaldoDate"
  ELSE IF p.type = "semana" THEN "QueryWeek"
  ELSE IF p.type = "mes" THEN "QueryMonth"
  ELSE IF p.type = "performance" THEN "Performance"
  ELSE IF p.type = "comparar" THEN "Compare"
  ELSE IF p.type = "previsao" THEN "Forecast"
  ELSE IF p.type = "ajuda" THEN "Help"
  ELSE "NotAnIntent"

(***************************************************************************)
(* Claims about the parser, checked under SpecParse.                       *)
(***************************************************************************)

\* C2: a message made of the keyword "diario", an amount and an optional date
\* token parses as AddDiario with that amount and the date the token names
\* (today without a token); it is never Unrecognized.
C2_DiarioKeywordParses ==
  ( /\ parsed # Pending
    /\ msg.marker = <<>>
    /\ msg.keyword = W_diario
    /\ msg.amount.plain
    /\ TokenValid(msg.dateToken, anchor) )
  => /\ parsed.type = "diario"
     /\ parsed.value = msg.amount.v
     /\ parsed.date = TokenDate(msg.dateToken, anchor)

\* C7: parse is total: for every input, the empty and the whitespace-only ones
\* and those without a digit included, it returns null (Unrecognized) or a
\* command of exactly one of the closed intents.
C7_ParseTotal ==
  parsed # Pending => IntentOf(parsed) \in ClosedIntents \ {"NotAnIntent"}

\* C7 witness: a whitespace-only message has been parsed, to Unrecognized
C7_Witness ==
  /\ parsed # Pending
  /\ msg.text # <<>>
  /\ trim(msg.text) = <<>>
  /\ IntentOf(parsed) = "Unrecognized"

\* C8: a returned command carries an amount (a number, not NaN) exactly when
\* its intent is AddEntrada, AddSaida or AddDiario, and a targetDate exactly
\* when its type is 'saldo'.
C8_AmountIffAdd_TargetIffSaldo ==
  (parsed # Pending /\ parsed.type # NullType)
  => /\ ( /\ "value" \in parsed.has
          /\ parsed.value # NullValue
          /\ ~isNaN(parsed.value) ) <=> (parsed.type \in AddTypes)
     /\ ("targetDate" \in parsed.has /\ parsed.targetDate # NoDate)
          <=> (parsed.type = "saldo")

\* C8 witness: a dated balance query, whose text holds digits, has been
\* parsed to a command with a targetDate and no amount
C8_Witness ==
  /\ parsed.type = "saldo"
  /\ msg.dateToken.kind = "abs"
  /\ parsed.targetDate = TokenDate(msg.dateToken, anchor)
  /\ "value" \notin parsed.has

\* C9: a message that starts with "sub" and whitespace (space, tab, ...), in any
\* letter case, and whose remainder is an Add command, parses with replace =
\* true and the intent, amount and date of the remainder parsed alone; a
\* message without the marker parses with replace = false.
C9_SubMarkerSetsReplace ==
  LET rest == parse(MessageText(<<>>, msg.keyword, msg.amount, msg.dateToken), anchor)
  IN /\ ( /\ parsed # Pending
          /\ startsWith(toLowerCase(msg.marker), W_sub)
          /\ rest.type \in AddTypes )
        => /\ parsed.shouldReplace
           /\ parsed.type = rest.type
           /\ parsed.value = rest.value
           /\ parsed.date = rest.date
     /\ (parsed.type \in AddTypes /\ ~startsWith(toLowerCase(msg.marker), W_sub))
        => ~parsed.shouldReplace

\* C10: a message that is only a number (digits, optionally a comma or dot and
\* decimals), optionally followed by a date token the date resolver knows,
\* parses as AddDiario with that amount and the date the token names.
C10_BareNumberIsDiario ==
  ( /\ parsed # Pending
    /\ msg.marker = <<>>
    /\ msg.keyword = <<>>
    /\ msg.amount.plain
    /\ TokenValid(msg.dateToken, anchor) )
  => /\ parsed.type = "diario"
     /\ parsed.value = msg.amount.v
     /\ parsed.date = TokenDate(msg.dateToken, anchor)

\* the date token is a relative-day keyword other than "hoje", in any case
IsRelativeDayToken(dt) ==
  toLowerCase(dt.text) \in {W_ontem, W_amanha, W_amanhaTil}

\* C11: "ontem", "amanha" and "amanhã", in any letter case, alone or after
\* "saldo", "resumo" or "extrato", parse as QuerySaldoDate with targetDate the
\* anchor date minus one day (ontem) or plus one day (amanha, amanhã); none of
\* them is Unrecognized.
C11_RelativeDayIsSaldoDate ==
  ( /\ parsed # Pending
    /\ msg.marker = <<>>
    /\ msg.keyword \in {<<>>, W_saldo, W_resumo, W_extrato}
    /\ msg.amount.text = <<>>
    /\ IsRelativeDayToken(msg.dateToken) )
  => /\ parsed.type = "saldo"
     /\ "targetDate" \in parsed.has
     /\ parsed.targetDate = TokenDate(msg.dateToken, anchor)

\* C12: the amount of an Add command is the value of the amount text in
\* dot-decimal form: a comma and a dot decimal separator give the same number,
\* and dots before a comma decimal are thousands separators ("1.234,56" is
\* 1234.56).
C12_AmountIsCanonicalValue ==
  ( /\ parsed # Pending
    /\ parsed.type \in AddTypes
    /\ msg.amount.text # <<>> )
  => parsed.value = msg.amount.v

(***************************************************************************)
(* Claims about updates and the dispatcher.  SpecSeq is the listener with  *)
(* one chat that sends each message after the reply to the one before;     *)
(* Spec is the listener as server.ts registers it.                         *)
(***************************************************************************)

\* the requests whose writeCell succeeded on cell c, in the order of the writes
Writers(c) == [k \in 1..Len(ledger[c]) |-> reqs[ledger[c][k]].request]

\* the amount of the last replace (0 if none) plus the sum of the adds after it
RECURSIVE SumSinceLastReplace(_)
SumSinceLastReplace(rs) ==
  IF rs = <<>> THEN 0
  ELSE LET r == rs[Len(rs)]
       IN IF r.shouldReplace THEN r.value
          ELSE SumSinceLastReplace(SubSeq(rs, 1, Len(rs) - 1)) + r.value

\* the cells every update of which carried an amount
AmountCells == {c \in DOMAIN ledger : \A k \in 1..Len(ledger[c]) :
                                        Writers(c)[k].value # NullValue}

\* an amount with at most two decimal places
IsCents(v) == v % 10 = 0

\* C1 as stated: after any sequence of sequential updates of one cell, of any
\* amounts, the stored value equals the amount of the last replace (0 if none)
\* plus the sum of the adds after it.
C1_SequentialUpdatesSum ==
  \A c \in AmountCells : parseValue(cells[c]) = SumSinceLastReplace(Writers(c))

\* C1: after any sequence of sequential updates of one cell whose amounts have
\* at most two decimal places, the stored value equals the amount of the last
\* replace (0 if none) plus the sum of the adds after it; two adds of X leave
\* 2X and two replaces leave the second amount.
C1_SequentialCentUpdatesSum ==
  \A c \in AmountCells :
    (\A k \in 1..Len(ledger[c]) : IsCents(Writers(c)[k].value))
    => parseValue(cells[c]) = SumSinceLastReplace(Writers(c))

\* C1 witness: a cell that started empty has taken an add, then a replace, then
\* an add, and holds the replace's amount plus the last add's
C1_Witness ==
  \E c \in AmountCells :
    /\ Len(ledger[c]) = 3
    /\ ~Writers(c)[1].shouldReplace
    /\ Writers(c)[2].shouldReplace
    /\ ~Writers(c)[3].shouldReplace
    /\ IsCents(Writers(c)[3].value)
    /\ parseValue(cells[c]) = Writers(c)[2].value + Writers(c)[3].value

\* the message is one of the help tokens alone
IsHelpToken(m) ==
  /\ m.keyword \in {W_ajuda, W_help, W_question}
  /\ m.marker = <<>> /\ m.amount.text = <<>> /\ m.dateToken.text = <<>>

\* C3: a message that is one of the help tokens "ajuda", "help", "?" gets the
\* static help text and no storage call is issued for it.
C3_HelpIssuesNoStorageCall ==
  \A i \in Ids :
    IsHelpToken(reqs[i].msg)
    => /\ reqs[i].calls = <<>>
       /\ (reqs[i].pc = "done" => reqs[i].reply = "help")

\* C4: an Add command whose date token names a day beyond the last day of its
\* month gets the InvalidDay failure and no cell is written for it.
C4_InvalidDayRejected ==
  \A i \in Ids :
    ( /\ reqs[i].request.type \in AddTypes
      /\ ~TokenValid(reqs[i].msg.dateToken, reqs[i].now) )
    => /\ reqs[i].calls = <<>>
       /\ (reqs[i].pc = "done" => reqs[i].reply = "invalidDay")

\* C5: every write stores the writer's own read plus its own amount (the last
\* write wins): nothing re-reads, locks or merges between an add's readCell
\* and its writeCell, so of two adds that read the same value V the cell
\* keeps V plus the amount of the one that wrote last.
C5_LastWriteWins ==
  \A c \in DOMAIN ledger :
    LET r == reqs[ledger[c][Len(ledger[c])]]
    IN cells[c] = formatValue(IF r.request.shouldReplace THEN r.request.value
                              ELSE Plus(r.cur, r.request.value))

\* C5 witness: two adds of X and Y on one cell both read the same value V > 0
\* and both wrote; the cell holds V + Y, not V + X + Y
C5_Witness ==
  \E i, j \in Ids :
    /\ i # j
    /\ reqs[i].reply = "updated" /\ reqs[j].reply = "updated"
    /\ reqs[i].at = reqs[j].at
    /\ reqs[i].cur = reqs[j].cur /\ reqs[i].cur > 0
    /\ reqs[i].request.value # reqs[j].request.value
    /\ ledger[reqs[j].at][Len(ledger[reqs[j].at])] = j
    /\ \E k \in 1..Len(ledger[reqs[i].at]) : ledger[reqs[i].at][k] = i
    /\ parseValue(cells[reqs[j].at]) = reqs[j].cur + reqs[j].request.value
    /\ parseValue(cells[reqs[j].at])
         # reqs[j].cur + reqs[i].request.value + reqs[j].request.value

\* C6: the handling of a message of a chat begins only when the handling of
\* every earlier message of that chat has run to completion.
C6_OneCommandPerChatAtATime ==
  \A i, j \in Ids :
    (i # j /\ reqs[i].chat = reqs[j].chat) => ~(InFlight(reqs[i]) /\ InFlight(reqs[j]))

(***************************************************************************)
(* Claims about the sheet's text format and layout, checked under          *)
(* SpecSheet.                                                              *)
(***************************************************************************)

\* C13: for every non-negative amount with at most two decimal places, amounts
\* of 1000 or more included, the currency text updateValue writes parses back
\* to the amount.
C13_FormatParseRoundTrip ==
  (input.fn = "roundTrip" /\ output.done) => output.back = input.amount

\* C13 witness: an amount above 1000 with cents has been written and read back
C13_Witness ==
  /\ input.fn = "roundTrip" /\ output.done
  /\ input.amount = 1234560
  /\ output.text = <<"R", "$", " ", "1", "2", "3", "4", ",", "5", "6">>
  /\ output.back = 1234560

\* the last valid day of a month
lastValidDay(month, year) ==
  IF month \in {1, 3, 5, 7, 8, 10, 12} THEN 31
  ELSE IF month \in {4, 6, 9, 11} THEN 30
  ELSE IF year % 400 = 0 THEN 29
  ELSE IF year % 100 = 0 THEN 28
  ELSE IF year % 4 = 0 THEN 29
  ELSE 28

\* C14: endRow - startRow + 1 is 31 for months 1, 3, 5, 7, 8, 10, 12, 30 for
\* months 4, 6, 9, 11, and for month 2 it is 29 exactly in leap years
\* (divisible by 4 and not by 100, or divisible by 400).
C14_DaysOfMonth ==
  (input.fn = "config" /\ output.done)
  => output.maxDay = lastValidDay(input.month, input.year)

\* C14 witness: February of 1900, a century year that is not a leap year, has
\* been laid out with 28 days
C14_Witness ==
  /\ input.fn = "config" /\ output.done
  /\ input.month = 2 /\ input.year = 1900
  /\ output.maxDay = 28

\* C15: the block of month m starts (m-1)*6 columns to the right of January's,
\* whose day label, entrada, saida, diario and saldo columns are B, C, D, E, F;
\* the letters are right for all 12 blocks, two-letter columns included.
C15_MonthBlockColumns ==
  (input.fn = "columns" /\ output.done)
  => LET off == (input.month - 1) * 6
     IN /\ output.columnOffset = off
        /\ output.blockStart = ColumnName(1 + off)
        /\ output.entrada = ColumnName(2 + off)
        /\ output.saida = ColumnName(3 + off)
        /\ output.diario = ColumnName(4 + off)
        /\ output.daysEnd = ColumnName(5 + off)

\* C15 witness: the columns of May, the first block with two-letter columns,
\* have been computed: Z, AA, AB, AC, AD
C15_Witness ==
  /\ input.fn = "columns" /\ output.done
  /\ input.month = 5
  /\ output.blockStart = <<"Z">>
  /\ output.entrada = <<"A", "A">>
  /\ output.daysEnd = <<"A", "D">>

(***************************************************************************)
(* AIService.generateResponse.  The statements between two awaits run      *)
(* without interleaving, but each Date.now() / new Date() is a read of the *)
(* wall clock, which may have passed to the next minute since the read     *)
(* before it.                                                              *)
(***************************************************************************)
MaxCalls == 2

MaxClock == 32

\* by how much the clock may advance between the three reads of one stretch
Advances == {<<0, 0>>, <<1, 0>>, <<0, 1>>}

\* the messages of k earlier calls of a chat, the last of which failed
Earlier(chatId, k) ==
  [j \in 1..(2 * k - 1) |->
     [role |-> IF j % 2 = 1 THEN "user" ELSE "assistant",
      content |-> [from |-> chatId, n |-> (j + 1) \div 2]]]

\* AIService after k earlier calls of a chat
After(chatId, k) ==
  [NoAI EXCEPT !.made = k,
               !.conversations =
                  (chatId :> [chatId |-> chatId,
                              messages |-> <<SystemMessage>> \o Earlier(chatId, k),
                              lastActivity |-> 0,
                              pushed |-> Earlier(chatId, k)])]

\* what callGemini makes of the messages it is given: the system prompt, the
\* history (every other message but the last) and the message it sends
callGemini(messages) ==
  LET userMessages == SelectSeq(messages, LAMBDA m : m.role # "system")
  IN [systemPrompt |-> \E k \in 1..Len(messages) : messages[k].role = "system",
      history |-> IF userMessages = <<>> THEN <<>>
                  ELSE SubSeq(userMessages, 1, Len(userMessages) - 1),
      lastMessage |-> IF userMessages = <<>> THEN [from |-> "none", n |-> 0]
                      ELSE userMessages[Len(userMessages)].content]

\* a generateResponse call: its arguments, the instant at which its context
\* was looked up, the chat's context before the call if it had one (history),
\* what callGemini sent, and where the call is
AICall(chatId, message, arrival, prior, sent, pc) ==
  [chatId |-> chatId, message |-> message, arrival |-> arrival, prior |-> prior,
   sent |-> sent, pc |-> pc]

NothingSent == [systemPrompt |-> FALSE, history |-> <<>>,
                lastMessage |-> [from |-> "none", n |-> 0]]

InitAI ==
  /\ msg \in {m \in Messages : m.text = <<>>}
  /\ anchor \in SysAnchors
  /\ parsed = Pending
  /\ today = anchor
  /\ cells = EmptyMap
  /\ reqs = EmptyMap
  /\ nextId = 0
  /\ ledger = EmptyMap
  /\ input = NoInput
  /\ output = NoOutput
  /\ ai \in {NoAI, [NoAI EXCEPT !.isEnabled = FALSE], After("chat1", 5)}

AIFrame == UNCHANGED <<msg, anchor, parsed, today, cells, reqs, nextId, ledger, input, output>>

\* generateResponse with the service disabled: the default text, nothing else
GenerateDisabled(chatId) ==
  /\ ~ai.isEnabled
  /\ Len(ai.calls) < MaxCalls
  /\ ai' = [ai EXCEPT !.calls =
              Append(@, AICall(chatId, [from |-> chatId, n |-> ai.made + Len(ai.calls) + 1],
                               ai.clock, <<>>, NothingSent, "done"))]
  /\ AIFrame

\* generateResponse up to the await of callGemini.  The context variable of
\* generateResponse and the one addToHistory looks up are the same object
\* unless addToHistory's lookup found the context expired and made a new one.
GenerateResponse(chatId) ==
  /\ ai.isEnabled
  /\ Len(ai.calls) < MaxCalls
  /\ \E advance \in Advances :
       LET now1    == ai.clock
           now2    == now1 + advance[1]
           now3    == now2 + advance[2]
           message == [from |-> chatId, n |-> ai.made + Len(ai.calls) + 1]
           before  == IF chatId \in DOMAIN ai.conversations
                      THEN <<ai.conversations[chatId]>> ELSE <<>>
           cleaned == cleanupOldConversations(ai.conversations, now1)
           found   == getConversationContext(cleaned, chatId, now2)
           context == found[chatId]
           added   == addToHistory(found, chatId, "user", message, now3)
           given   == IF expired(context, now3) THEN context.messages
                      ELSE added[chatId].messages
       IN /\ now3 <= MaxClock
          /\ ai' = [ai EXCEPT !.clock = now3,
                              !.conversations = added,
                              !.calls = Append(@, AICall(chatId, message, now2,
                                                         before, callGemini(given),
                                                         "callGemini"))]
  /\ AIFrame

\* callGemini returns the answer, which goes to the history
GeminiReturns(i) ==
  /\ ai.calls[i].pc = "callGemini"
  /\ LET call == ai.calls[i]
     IN ai' = [ai EXCEPT !.conversations =
                           addToHistory(@, call.chatId, "assistant", call.message,
                                        ai.clock),
                         !.calls = [@ EXCEPT ![i] = [@ EXCEPT !.pc = "done"]]]
  /\ AIFrame

\* callGemini throws: the catch returns one of the error texts
GeminiFails(i) ==
  /\ ai.calls[i].pc = "callGemini"
  /\ ai' = [ai EXCEPT !.calls = [@ EXCEPT ![i] = [@ EXCEPT !.pc = "failed"]]]
  /\ AIFrame

\* half an hour passes
Tick ==
  /\ ai.clock + contextTimeout <= MaxClock
  /\ ai' = [ai EXCEPT !.clock = @ + contextTimeout]
  /\ AIFrame

Generate == \E chatId \in Chats : GenerateDisabled(chatId) \/ GenerateResponse(chatId)

GeminiAnswers == \E i \in 1..Len(ai.calls) : GeminiReturns(i) \/ GeminiFails(i)

NextAI == Generate \/ GeminiAnswers \/ Tick

SpecAI == InitAI /\ [][NextAI]_vars

(***************************************************************************)
(* Failures (checked under SpecReports).                                   *)
(***************************************************************************)

\* the replies that report a failure to the user
FailureReplies ==
  {"invalidDay", "saveError", "dayFailed", "monthFailed", "performanceFailed",
   "compareFailed", "forecastNoData"}

\* C16: whenever a storage call (readCell, writeCell, readRange, batchRead)
\* has thrown during the handling of a message, a failed day of the week
\* report and the failed days range of the month totals included, the reply
\* is a failure message, never a report.
C16_StorageFailureGivesFailureReply ==
  \A i \in Ids :
    (reqs[i].pc = "done" /\ reqs[i].rep.failures > 0)
    => reqs[i].reply \in FailureReplies

\* the words of the last line of a failure reply (the cross mark left out, a
\* value interpolated into the text written as its name in angle brackets);
\* the message of an exception the update caught is the storage's, or the
\* TypeError's of formatCurrency(undefined)
failureText(r) ==
  IF r.reply = "invalidDay"
  THEN IF r.request.day < 1 \/ r.request.day > 31
       THEN <<"Dia", "inva'lido:", "<day>">>
       ELSE <<"O", "me^s", "<month>/<year>", "so'", "tem", "<maxDay>", "dias">>
  ELSE IF r.reply = "saveError"
  THEN <<"Erro", "ao", "salvar:">>
       \o (IF r.rep.failures > 0 THEN <<"<error.message>">>
           ELSE <<"Cannot", "read", "properties", "of", "undefined",
                  "(reading", "'toFixed')">>)
  ELSE IF r.reply = "dayFailed"
  THEN <<"Na~o", "foi", "possi'vel", "obter", "os", "dados", "deste", "dia.">>
  ELSE IF r.reply = "monthFailed"
  THEN <<"Na~o", "foi", "possi'vel", "obter", "os", "dados", "do", "me^s.">>
  ELSE IF r.reply = "performanceFailed"
  THEN <<"Na~o", "foi", "possi'vel", "calcular", "a", "performance.">>
  ELSE IF r.reply = "compareFailed"
  THEN <<"Na~o", "foi", "possi'vel", "comparar", "os", "meses.">>
  ELSE <<"Na~o", "ha'", "dados", "suficientes", "para", "fazer", "previsa~o.">>

\* the text names the help command
pointsToHelp(words) == \E k \in 1..Len(words) : words[k] \in {"ajuda", "\"ajuda\""}

\* C17: every failure reply (invalid day, storage failure on update, failed
\* day, month, performance, comparison or forecast report) ends with a pointer to the
\* help command.
C17_FailureReplyPointsToHelp ==
  \A i \in Ids :
    (reqs[i].pc = "done" /\ reqs[i].reply \in FailureReplies)
    => pointsToHelp(failureText(reqs[i]))

\* the replies handleMessage returns
Replies ==
  FailureReplies
  \cup {"help", "updated", "day", "week", "monthComplete", "performance",
        "comparison", "forecast"}

\* C18: handleMessage never raises: whatever the message and whichever
\* storage calls throw, an invocation is either suspended at a storage call
\* or has completed by returning a reply; no exception leaves it.
C18_HandleNeverRaises ==
  \A i \in Ids :
    /\ reqs[i].pc \in {"done", "readCell", "writeCell", "readRange", "batchRead",
                       "Promise.all"}
    /\ reqs[i].pc = "done" => reqs[i].reply \in Replies

\* C18 witness: an update whose storage call threw has completed with the
\* save-error reply
C18_Witness ==
  \E i \in Ids :
    /\ reqs[i].pc = "done"
    /\ reqs[i].rep.failures = 1
    /\ reqs[i].msg = M_entrada517
    /\ reqs[i].reply = "saveError"

(***************************************************************************)
(* The totals of the month (checked under SpecReports).                    *)
(***************************************************************************)

\* the finished invocations whose getMonthTotals returned a summary
MonthTotalsReturned ==
  {i \in Ids : reqs[i].pc = "done" /\ reqs[i].rep.summary.present}

\* C19: when getMonthTotals finds no day with data, the daily average is 0,
\* no division by zero happens, and the forecast, the performance report and
\* the month report reply that the figure is not applicable instead of
\* rendering one.
C19_NoDataIsNotApplicable ==
  \A i \in MonthTotalsReturned :
    reqs[i].rep.summary.diasComDados = 0
    => /\ reqs[i].rep.summary.mediaDiaria = 0
       /\ reqs[i].rep.figure # NaN
       /\ reqs[i].reply = "forecastNoData"

\* C20: every summary getMonthTotals returns, whatever the sheet holds, has
\* saidaTotal = totalSaidas + totalDiario and
\* performance = totalEntradas - saidaTotal.
C20_SummaryTotalsAddUp ==
  \A i \in MonthTotalsReturned :
    LET summary == reqs[i].rep.summary
    IN /\ summary.saidaTotal = summary.totalSaidas + summary.totalDiario
       /\ summary.performance = summary.totalEntradas - summary.saidaTotal

(***************************************************************************)
(* The conversation contexts (checked under SpecAI).                       *)
(***************************************************************************)

\* C21: the history of every chat is the system prompt followed by the (at
\* most) 10 most recent user/assistant messages pushed to it, in the order
\* they were pushed; the system prompt is never dropped nor duplicated.
C21_HistoryIsPromptAndLastTen ==
  \A c \in DOMAIN ai.conversations :
    ai.conversations[c].messages
      = <<SystemMessage>> \o LastN(ai.conversations[c].pushed, maxHistorySize)

\* C21 witness: a chat has had more than 10 messages, and its history is the
\* system prompt and the last 10 of them
C21_Witness ==
  \E c \in DOMAIN ai.conversations :
    LET context == ai.conversations[c]
    IN /\ Len(context.pushed) = maxHistorySize + 1
       /\ Len(context.messages) = maxHistorySize + 1
       /\ context.messages[1] = SystemMessage
       /\ context.messages[2] = context.pushed[2]

\* the calls that reached callGemini
Sent == {i \in 1..Len(ai.calls) : ai.calls[i].sent.systemPrompt}

\* everything callGemini sent for call i, in order
SentMessages(i) ==
  LET sent == ai.calls[i].sent
  IN Append([k \in 1..Len(sent.history) |-> sent.history[k].content],
            sent.lastMessage)

\* call i arrived more than 30 minutes after the last activity of its chat,
\* or is the first of its chat
ArrivedLate(i) ==
  LET call == ai.calls[i]
  IN \/ call.prior = <<>>
     \/ call.arrival - call.prior[1].lastActivity > contextTimeout

\* the texts of the chat's history before call i, the system prompt left out
EarlierTexts(i) ==
  LET messages == Tail(ai.calls[i].prior[1].messages)
  IN [k \in 1..Len(messages) |-> messages[k].content]

\* t occurs in s as a run of consecutive entries
OccursIn(t, s) ==
  \E k \in 0..(Len(s) - Len(t)) : SubSeq(s, k + 1, k + Len(t)) = t

\* C22: contexts are per chat and expire after 30 minutes of inactivity:
\* what is sent for a message of a chat holds messages of that chat only; a
\* message arriving more than 30 minutes after the chat's last activity is
\* sent with the system prompt and nothing else; one arriving within 30
\* minutes is sent with the earlier messages of the chat (the most recent
\* ones that fit with it in the history).
C22_ContextPerChatExpiresAfter30Minutes ==
  \A i \in Sent :
    LET call == ai.calls[i]
    IN /\ \A k \in 1..Len(SentMessages(i)) : SentMessages(i)[k].from = call.chatId
       /\ ArrivedLate(i) => SentMessages(i) = <<call.message>>
       /\ ~ArrivedLate(i)
          => OccursIn(LastN(EarlierTexts(i), maxHistorySize - 1), SentMessages(i))

\* C22 witness: a message of a chat with 9 earlier messages arrived 31
\* minutes after its last activity and was sent alone, while a message of
\* another chat is in flight
C22_Witness ==
  \E i \in Sent, j \in Sent :
    /\ ai.calls[i].chatId # ai.calls[j].chatId
    /\ ai.calls[j].pc = "callGemini"
    /\ ai.calls[i].prior # <<>>
    /\ Len(ai.calls[i].prior[1].messages) = maxHistorySize
    /\ ai.calls[i].arrival - ai.calls[i].prior[1].lastActivity = contextTimeout + 1
    /\ SentMessages(i) = <<ai.calls[i].message>>

\* a message that arrived within 30 minutes and was sent without being in
\* what was sent for it: the context was found expired by addToHistory after
\* generateResponse had looked it up
AnsweredFromStaleContext ==
  \E i \in Sent :
    ai.calls[i].sent.lastMessage # ai.calls[i].message

(***************************************************************************)
(* The reports (checked under SpecReports).                                *)
(***************************************************************************)

\* the invocations of a report of the month whose batchRead has returned
DaysRangeAsked ==
  {i \in Ids : /\ reqs[i].rep.op \in {"mes", "performance", "previsao"}
               /\ reqs[i].rep.results # <<>>}

\* C23: the clock is read once per request: the month and year a report of
\* the month works on, and the current-month test and day cutoff of
\* getMonthTotals' days range, all come from the instant the request
\* arrived, also when midnight passes between two steps of the request.
C23_ClockReadOncePerRequest ==
  /\ \A i \in Ids :
       reqs[i].rep.op \in {"mes", "performance", "previsao"}
       => reqs[i].rep.date = reqs[i].now
  /\ \A i \in DaysRangeAsked :
       reqs[i].rep.range
         = daysRange(reqs[i].rep.date.m, reqs[i].rep.date.y, reqs[i].now)

\* the row of a day and the first column of a month's block
RowOfDay(day) == 5 + day

BlockOffset(month) == (month - 1) * 6

\* the amount the sheet holds for a field (1 entrada, 2 saida, 3 diario,
\* 4 saldo) of a date; a blank or unparsable cell counts as 0
Stored(field, date) ==
  LET amount == parseValue(CellText(ColumnName(1 + field + BlockOffset(date.m))
                                    \o NatToText(RowOfDay(date.d))))
  IN IF amount = NaN THEN 0 ELSE amount

\* the range of the four value cells of a date
FourValueCells(date) ==
  ColumnName(2 + BlockOffset(date.m)) \o NatToText(RowOfDay(date.d)) \o <<":">>
  \o ColumnName(5 + BlockOffset(date.m)) \o NatToText(RowOfDay(date.d))

\* C24: a day report issues exactly one storage call, a readRange over the
\* one row and exactly the four columns entrada, saida, diario, saldo of the
\* date's block, and its record holds those four cells, blank ones as 0.
C24_DayReportReadsFourCells ==
  \A i \in Ids :
    reqs[i].rep.op = "day"
    => /\ reqs[i].calls = <<Call("readRange", FourValueCells(reqs[i].rep.date))>>
       /\ reqs[i].reply = "day"
          => /\ reqs[i].rep.totalEntradas = Stored(1, reqs[i].rep.date)
             /\ reqs[i].rep.totalSaidas = Stored(2, reqs[i].rep.date)
             /\ reqs[i].rep.totalDiario = Stored(3, reqs[i].rep.date)
             /\ reqs[i].rep.saldo = Stored(4, reqs[i].rep.date)

\* the calendar day before a date
DayBefore(date) ==
  IF date.d > 1 THEN [date EXCEPT !.d = @ - 1]
  ELSE IF date.m > 1
  THEN [y |-> date.y, m |-> date.m - 1, d |-> lastValidDay(date.m - 1, date.y)]
  ELSE [y |-> date.y - 1, m |-> 12, d |-> 31]

\* the n consecutive calendar days ending at a date, oldest first
RECURSIVE DaysEndingAt(_, _)
DaysEndingAt(date, n) ==
  IF n = 0 THEN <<>> ELSE Append(DaysEndingAt(DayBefore(date), n - 1), date)

\* the sum of a field over some dates
RECURSIVE StoredSum(_, _)
StoredSum(field, dates) ==
  IF dates = <<>> THEN 0
  ELSE Stored(field, Head(dates)) + StoredSum(field, Tail(dates))

\* C25: a week report has read the 7 consecutive calendar days ending at the
\* day the command arrived, one readRange per day, oldest first, each in the
\* block of its month; its totals are the sums of entrada, saida and diario
\* over those days and its final balance is the saldo of the last of them.
C25_WeekReportSevenDays ==
  \A i \in Ids :
    (reqs[i].rep.op = "week" /\ reqs[i].pc = "done")
    => LET week == DaysEndingAt(reqs[i].now, 7)
       IN /\ Len(reqs[i].calls) = 7
          /\ \A k \in 1..7 :
               /\ reqs[i].calls[k].op = "readRange"
               /\ startsWith(reqs[i].calls[k].at,
                             ColumnName(2 + BlockOffset(week[k].m))
                             \o NatToText(RowOfDay(week[k].d)) \o <<":">>)
          /\ reqs[i].rep.totalEntradas = StoredSum(1, week)
          /\ reqs[i].rep.totalSaidas = StoredSum(2, week)
          /\ reqs[i].rep.totalDiario = StoredSum(3, week)
          /\ reqs[i].rep.saldo = Stored(4, week[7])

\* the days of a month for which the sheet holds an amount above 0
DaysWithData(month, year) ==
  {d \in 1..lastValidDay(month, year) :
     \E field \in 1..3 : Stored(field, [y |-> year, m |-> month, d |-> d]) > 0}

\* C26: the diasComDados of a summary whose reads all succeeded is the
\* number of days of the month with an entrada, saida or diario above 0,
\* in the current month too and whatever rows readRange shortened.
C26_DaysWithDataCountsEveryDay ==
  \A i \in MonthTotalsReturned :
    reqs[i].rep.failures = 0
    => reqs[i].rep.summary.diasComDados
         = Cardinality(DaysWithData(reqs[i].rep.summary.month,
                                    reqs[i].rep.summary.year))

\* the amount in a totals row (40 or 43) of a column of a month's block
StoredTotal(column, month, row) ==
  LET amount == parseValue(CellText(ColumnName(column + BlockOffset(month))
                                    \o NatToText(row)))
  IN IF amount = NaN THEN 0 ELSE amount

\* the five coordinates of a month's totals, joined by commas
TotalsCells(month) ==
  LET At1(column, row) == ColumnName(column + BlockOffset(month)) \o NatToText(row)
  IN At1(2, 40) \o <<",">> \o At1(3, 40) \o <<",">> \o At1(4, 40) \o <<",">>
     \o At1(1, 43) \o <<",">> \o At1(4, 43)

\* the calendar month before a month
MonthBefore(date) ==
  IF date.m = 1 THEN [m |-> 12, y |-> date.y - 1] ELSE [m |-> date.m - 1, y |-> date.y]

\* C27: the comparison asks for the totals of the current month and of the
\* calendar month before it (December of the year before in January), both
\* before either is answered; its differences are those of the stored totals
\* in whatever order the reads complete; if either getMonthTotals fails the
\* reply is the failure message.
C27_ComparisonOfCurrentAndPreviousMonth ==
  \A i \in Ids :
    reqs[i].rep.op = "compare"
    => LET r        == reqs[i]
           previous == MonthBefore(r.now)
           parts    == r.rep.parts
       IN /\ <<parts[1].month, parts[1].year>> = <<r.now.m, r.now.y>>
          /\ <<parts[2].month, parts[2].year>> = <<previous.m, previous.y>>
          /\ r.calls[1] = Call("batchRead", TotalsCells(r.now.m))
          /\ r.calls[2] = Call("batchRead", TotalsCells(previous.m))
          /\ r.pc = "done"
             => IF \E k \in 1..2 : ~parts[k].summary.present
                THEN r.reply = "compareFailed"
                ELSE /\ r.reply = "comparison"
                     /\ r.rep.diffs
                          = <<StoredTotal(2, r.now.m, 40) - StoredTotal(2, previous.m, 40),
                              StoredTotal(1, r.now.m, 43) - StoredTotal(1, previous.m, 43),
                              StoredTotal(4, r.now.m, 43) - StoredTotal(4, previous.m, 43)>>

\* C27 witness: a comparison of January 2025 with December 2024 whose
\* previous month was answered first, with entradas 103,00 higher
C27_Witness ==
  \E i \in Ids :
    /\ reqs[i].rep.op = "compare" /\ reqs[i].pc = "done"
    /\ reqs[i].reply = "comparison"
    /\ reqs[i].rep.order = <<2, 1>>
    /\ reqs[i].rep.parts[2].month = 12 /\ reqs[i].rep.parts[2].year = 2024
    /\ reqs[i].rep.diffs[1] = 103000

(***************************************************************************)
(* The cells of updates.                                                   *)
(***************************************************************************)

\* C28 (checked under SpecSheet): two updates that differ in field, day,
\* month or year address different cells.
C28_CellOfUpdateIsInjective ==
  (input.fn = "cellRange" /\ output.done)
  => (<<input.type, input.day, input.month, input.year>>
        # <<input.other.type, input.other.day, input.other.month, input.other.year>>
      => output.cellRange # output.otherCellRange)

\* the coordinates of the update cells: a row of a day and the entrada, saida
\* or diario column of a month's block
UpdateCells ==
  {ColumnName(1 + field + BlockOffset(month)) \o NatToText(RowOfDay(day)) :
     field \in 1..3, month \in 1..12, day \in 1..31}

\* the text is "R$ ", one or more digits, a comma and two digits
IsCurrencyText(text) ==
  /\ Len(text) >= 7
  /\ SubSeq(text, 1, 3) = <<"R", "$", " ">>
  /\ text[Len(text) - 2] = ","
  /\ \A k \in (4..Len(text)) \ {Len(text) - 2} : IsDigit(text[k])

\* C29 (checked under SpecSeq): every writeCell issued targets a row in 6..36
\* of the entrada, saida or diario column of a month's block (never a totals
\* row, a label, saldo or spacer column, or a malformed coordinate), and the
\* text written has the form "R$ <digits>,<2 digits>".
C29_WritesTargetUpdateCells ==
  \A i \in Ids :
    /\ \A k \in 1..Len(reqs[i].calls) :
         reqs[i].calls[k].op = "writeCell" => reqs[i].calls[k].at \in UpdateCells
    /\ reqs[i].pc = "writeCell" => IsCurrencyText(reqs[i].written)

(***************************************************************************)
(* Failed updates.                                                         *)
(***************************************************************************)

\* the storage calls of kind op that invocation r issued
CallsOf(r, op) == {k \in 1..Len(r.calls) : r.calls[k].op = op}

\* updateValue returned a failure response to invocation r
UpdateFailed(r) == r.pc = "done" /\ r.reply \in {"invalidDay", "saveError"}

\* invocation i has changed the store: one of its writeCell calls returned
Wrote(i) == \E c \in DOMAIN ledger : \E k \in 1..Len(ledger[c]) : ledger[c][k] = i

\* an update issues each storage call at most once, reads only when it adds,
\* calls nothing when the day is rejected, and writes nothing when its
\* readCell threw (no text to write was formed)
CallsOfUpdate(r) ==
  /\ Cardinality(CallsOf(r, "readCell")) <= 1
  /\ Cardinality(CallsOf(r, "writeCell")) <= 1
  /\ r.request.shouldReplace => CallsOf(r, "readCell") = {}
  /\ r.reply = "invalidDay" => r.calls = <<>>
  /\ (r.pc = "done" /\ CallsOf(r, "readCell") # {} /\ r.written = <<>>)
       => CallsOf(r, "writeCell") = {}

\* C30 (checked under SpecSeq): an update that returns a failure leaves the
\* store unchanged: a rejected day issues no storage call, a failed readCell
\* is not followed by a writeCell, no storage call is issued twice, and a
\* replacing update issues no readCell.
C30_FailedUpdateLeavesStoreUnchanged ==
  \A i \in Ids :
    /\ reqs[i].rep.op = NoReport.op => CallsOfUpdate(reqs[i])
    /\ UpdateFailed(reqs[i]) => ~Wrote(i)

====
